---- MODULE Spec2Model ----
(***************************************************************************)
(* A model of tacodns: the zone matcher (does_match), the resolution       *)
(* engine (handle_dns), the resolver client with its cache                 *)
(* (resolver_lookup) and the request handler (handle_request).             *)
(*                                                                         *)
(* Strings are sequences of ASCII codes, names are sequences of labels.    *)
(***************************************************************************)
EXTENDS Integers, Sequences, FiniteSets, TLC

\* ------------------------------------------------------------------------
\* Bounds of the matcher specification
\* ------------------------------------------------------------------------
MaxMatchers == 2
MaxMatcherLen == 2
MaxQnameLen == 3

\* ------------------------------------------------------------------------
\* Characters and strings
\* ------------------------------------------------------------------------
DOT == 46

\* labels used by the models: "co", "ex", "ww", "ns" and case variants
co == <<99, 111>>
Co == <<67, 111>>
cO == <<99, 79>>
ex == <<101, 120>>
Ex == <<69, 120>>
ww == <<119, 119>>
w2 == <<119, 50>>
ns == <<110, 115>>

\* mutation: the qname is compared as it was sent
to_lowercase_id(s) == s

\* str::to_lowercase restricted to ASCII
to_lowercase(s) ==
    [i \in 1..Len(s) |-> IF s[i] >= 65 /\ s[i] <= 90 THEN s[i] + 32 ELSE s[i]]

\* Iterator::rev
Rev(s) == [i \in 1..Len(s) |-> s[Len(s) + 1 - i]]

RECURSIVE Concat(_)
Concat(ss) == IF ss = <<>> THEN <<>> ELSE Head(ss) \o Concat(Tail(ss))

\* ------------------------------------------------------------------------
\* Zone matcher labels (config::Label)
\* ------------------------------------------------------------------------
Basic(s) == [kind |-> "Basic", s |-> s]
\* a regex is represented by the finite set of labels it matches
Regex(eager, lang) == [kind |-> "Regex", eager |-> eager, lang |-> lang]
Wildcard == [kind |-> "Wildcard"]
SubWildcard == [kind |-> "SubWildcard"]
AllWildcard == [kind |-> "AllWildcard"]

\* ------------------------------------------------------------------------
\* does_match
\* ------------------------------------------------------------------------
\* The 'label loop of one matcher.  labels: the matcher's labels still to
\* process, rightmost first; q: the peekable iterator over the lowercased
\* qname, rightmost first.  Result: "end" (loop left normally or by break),
\* "continue" (continue 'matcher) or "panic" (unimplemented!()), with the
\* labels left in the iterator.
RECURSIVE walk_labels_nosub(_, _)
walk_labels_nosub(labels, q) ==
    IF labels = <<>> THEN [st |-> "end", rest |-> q]
    ELSE LET label == Head(labels) IN
      CASE label.kind = "Basic" ->
             IF q # <<>> /\ Head(q) = label.s
             THEN walk_labels_nosub(Tail(labels), Tail(q))
             ELSE [st |-> "continue", rest |-> q]
        [] label.kind = "Regex" ->
             IF label.eager THEN [st |-> "panic", rest |-> q]
             ELSE IF q # <<>> /\ Head(q) \in label.lang
                  THEN walk_labels_nosub(Tail(labels), Tail(q))
                  ELSE [st |-> "continue", rest |-> q]
        [] label.kind = "Wildcard" ->
             IF q = <<>> THEN [st |-> "continue", rest |-> q]
             ELSE walk_labels_nosub(Tail(labels), Tail(q))
        [] label.kind = "SubWildcard" ->
             \* mutation: the "at least one label" test is missing
             walk_labels_nosub(Tail(labels), <<>>)
        [] label.kind = "AllWildcard" ->
             [st |-> "end", rest |-> <<>>]

RECURSIVE walk_labels(_, _)
walk_labels(labels, q) ==
    IF labels = <<>> THEN [st |-> "end", rest |-> q]
    ELSE LET label == Head(labels) IN
      CASE label.kind = "Basic" ->
             IF q # <<>> /\ Head(q) = label.s
             THEN walk_labels(Tail(labels), Tail(q))
             ELSE [st |-> "continue", rest |-> q]
        [] label.kind = "Regex" ->
             IF label.eager THEN [st |-> "panic", rest |-> q]
             ELSE IF q # <<>> /\ Head(q) \in label.lang
                  THEN walk_labels(Tail(labels), Tail(q))
                  ELSE [st |-> "continue", rest |-> q]
        [] label.kind = "Wildcard" ->
             IF q = <<>> THEN [st |-> "continue", rest |-> q]
             ELSE walk_labels(Tail(labels), Tail(q))
        [] label.kind = "SubWildcard" ->
             IF q = <<>> THEN [st |-> "continue", rest |-> q]
             ELSE walk_labels(Tail(labels), <<>>)
        [] label.kind = "AllWildcard" ->
             [st |-> "end", rest |-> <<>>]

\* the iterator built at the head of the 'matcher loop
qname_iter(qname) == Rev([i \in 1..Len(qname) |-> to_lowercase(qname[i])])

\* "true", "false" or "panic"
RECURSIVE does_match_r(_, _)
does_match_r(matchers, qname) ==
    IF matchers = <<>> THEN "false"
    ELSE LET w == walk_labels(Rev(Head(matchers)), qname_iter(qname)) IN
         IF w.st = "panic" THEN "panic"
         ELSE IF w.st = "end" /\ w.rest = <<>> THEN "true"
         ELSE does_match_r(Tail(matchers), qname)

does_match(matchers, qname) == does_match_r(matchers, qname) = "true"

\* ------------------------------------------------------------------------
\* Wire constants and records (server::protocol)
\* ------------------------------------------------------------------------
record_type_A == 1
record_type_NS == 2
record_type_CNAME == 5
record_type_SOA == 6
record_type_MX == 15
record_type_TXT == 16
record_type_AAAA == 28
record_type_SRV == 33

U8 == 256
U16 == 65536

\* Numbers too wide for one machine integer of the model checker are kept as two
\* digits of base 2^16: hi * 2^16 + lo.  A u32 has hi < 2^16.
Wide(n) == [hi |-> n \div U16, lo |-> n % U16]
WideLess(a, b) == a.hi < b.hi \/ (a.hi = b.hi /\ a.lo < b.lo)
WideAdd(a, b) ==
    [hi |-> a.hi + b.hi + ((a.lo + b.lo) \div U16), lo |-> (a.lo + b.lo) % U16]
\* a * k for a small k
WideTimes(a, k) ==
    [hi |-> a.hi * k + ((a.lo * k) \div U16), lo |-> (a.lo * k) % U16]
\* u64 as u32
as_u32(a) == [hi |-> a.hi % U16, lo |-> a.lo]
u32_max_value == [hi |-> U16 - 1, lo |-> U16 - 1]
\* u32 subtraction that wraps around (overflow checks off)
wrapping_sub(a, b) ==
    LET borrow == IF a.lo < b.lo THEN 1 ELSE 0 IN
    [hi |-> (a.hi - b.hi - borrow) % U16, lo |-> (a.lo - b.lo) % U16]

Question(qname, qtype, qclass) ==
    [qname |-> qname, qtype |-> qtype, qclass |-> qclass]

Resource(rname, rtype, rclass, ttl, rdata) ==
    [rname |-> rname, rtype |-> rtype, rclass |-> rclass, ttl |-> ttl,
     rdata |-> rdata]

\* [String]::join(".")
RECURSIVE join(_)
join(labels) ==
    IF labels = <<>> THEN <<>>
    ELSE IF Len(labels) = 1 THEN Head(labels)
    ELSE Head(labels) \o <<DOT>> \o join(Tail(labels))

\* str::find("."): index (from 0) of the first dot, or -1
RECURSIVE find_dot(_, _)
find_dot(s, from) ==
    IF from > Len(s) THEN -1
    ELSE IF s[from] = DOT THEN from - 1
    ELSE find_dot(s, from + 1)

\* str::split('.'): the pieces between the dots; one empty piece for ""
RECURSIVE split(_)
split(s) ==
    LET index == find_dot(s, 1) IN
    IF index = -1 THEN <<s>>
    ELSE <<SubSeq(s, 1, index)>> \o split(SubSeq(s, index + 2, Len(s)))

ends_with_dot(s) == Len(s) > 0 /\ s[Len(s)] = DOT

rewrite_xname(xname_destination, qname) ==
    IF ends_with_dot(xname_destination)
    THEN SubSeq(xname_destination, 1, Len(xname_destination) - 1)
    ELSE LET index == find_dot(qname, 1)
             parent_name == IF index # -1
                            THEN SubSeq(qname, index + 2, Len(qname))
                            ELSE qname
         IN xname_destination \o <<DOT>> \o parent_name

\* length-prefixed labels, then a zero byte
RECURSIVE serialize_name(_)
serialize_name(name) ==
    IF name = <<>> THEN <<0>>
    ELSE <<Len(Head(name)) % U8>> \o Head(name) \o serialize_name(Tail(name))

\* Duration::as_secs() as u32, of a Duration given in seconds
as_secs_u32(ttl) == as_u32(Wide(ttl))

\* ------------------------------------------------------------------------
\* Configuration (config::Zone, config::Records) and options
\* ------------------------------------------------------------------------
SocketAddr(ip, port) == [ip |-> ip, port |-> port]
NoAddr == SocketAddr(<<>>, 0)

\* options.resolver and two other upstream servers
Resolver == SocketAddr(<<127, 0, 0, 53>>, 53)
Rns1 == SocketAddr(<<8, 8, 8, 8>>, 53)
Rns2 == SocketAddr(<<8, 8, 4, 4>>, 53)

RnsSocketAddr(addr) ==
    [kind |-> "SocketAddr", addr |-> addr, host |-> <<>>, port |-> addr.port,
     external |-> FALSE]
RnsHostPort(host, port, external) ==
    [kind |-> "HostPort", addr |-> NoAddr, host |-> host, port |-> port,
     external |-> external]

NoRecords ==
    [a |-> <<>>, aaaa |-> <<>>, ns |-> <<>>, cname |-> <<>>, aname |-> <<>>,
     mx |-> <<>>, rns |-> <<>>]

Zone(matchers, records) == [matchers |-> matchers, records |-> records]

\* mutation: the records are named by the lowercased qname
a_resources_lowercased(question, zone) ==
    [i \in 1..Len(zone.records.a) |->
        Resource([k \in 1..Len(question.qname) |-> to_lowercase(question.qname[k])],
                 question.qtype, question.qclass,
                 as_secs_u32(zone.records.a[i].ttl), zone.records.a[i].ip4addr)]

\* what handle_dns pushes for the records of a zone
a_resources(question, zone) ==
    [i \in 1..Len(zone.records.a) |->
        Resource(question.qname, question.qtype, question.qclass,
                 as_secs_u32(zone.records.a[i].ttl), zone.records.a[i].ip4addr)]

aaaa_resources(question, zone) ==
    [i \in 1..Len(zone.records.aaaa) |->
        Resource(question.qname, question.qtype, question.qclass,
                 as_secs_u32(zone.records.aaaa[i].ttl),
                 zone.records.aaaa[i].ip6addr)]

mx_resources(question, zone) ==
    [i \in 1..Len(zone.records.mx) |->
        LET mx == zone.records.mx[i] IN
        Resource(question.qname, question.qtype, question.qclass,
                 as_secs_u32(mx.ttl),
                 <<(mx.priority \div 256) % U8, mx.priority % U8>>
                     \o serialize_name(split(mx.host)))]

\* mutation: the CNAME record is named by its target
cname_resource_target(question, cname, new_name) ==
    Resource(split(new_name), record_type_CNAME, question.qclass,
             as_secs_u32(cname.ttl), serialize_name(split(new_name)))

cname_resource(question, cname, new_name) ==
    Resource(question.qname, record_type_CNAME, question.qclass,
             as_secs_u32(cname.ttl), serialize_name(split(new_name)))

\* mutation: the NS name is encoded as one label
ns_resource_unsplit(question, nsrec) ==
    Resource(question.qname, question.qtype, question.qclass,
             as_secs_u32(nsrec.ttl), serialize_name(<<nsrec.name>>))

ns_resource(question, nsrec) ==
    Resource(question.qname, question.qtype, question.qclass,
             as_secs_u32(nsrec.ttl), serialize_name(split(nsrec.name)))

\* the arm of `match question.qtype` taken for a matching zone
dispatch(zone, qtype) ==
    IF zone.records.cname # <<>> THEN "cname"
    ELSE IF qtype \in {record_type_A, record_type_AAAA} /\ zone.records.aname # <<>>
    THEN "aname"
    ELSE IF qtype = record_type_A THEN "a"
    ELSE IF qtype = record_type_AAAA THEN "aaaa"
    ELSE IF qtype = record_type_NS THEN "ns"
    ELSE IF qtype = record_type_MX THEN "mx"
    ELSE "none"

\* fn handle_response of the HostPort arm: the address of the first A or
\* AAAA record; reading past the end of rdata panics
RECURSIVE handle_response(_, _)
handle_response(ans, port) ==
    IF ans = <<>> THEN [tag |-> "None", addr |-> NoAddr]
    ELSE LET record == Head(ans) IN
         IF record.rtype = record_type_A
         THEN IF Len(record.rdata) < 4 THEN [tag |-> "panic", addr |-> NoAddr]
              ELSE [tag |-> "Some",
                    addr |-> SocketAddr(SubSeq(record.rdata, 1, 4), port)]
         ELSE IF record.rtype = record_type_AAAA
         THEN IF Len(record.rdata) < 16 THEN [tag |-> "panic", addr |-> NoAddr]
              ELSE [tag |-> "Some",
                    addr |-> SocketAddr(SubSeq(record.rdata, 1, 16), port)]
         ELSE handle_response(Tail(ans), port)

\* ------------------------------------------------------------------------
\* Bounds of the engine specifications
\* ------------------------------------------------------------------------
MaxZones == 2        \* zones of a drawn configuration
MaxDepth == 7        \* call frames that fit the worker's stack
MaxRequests == 1     \* requests handled in one behaviour
MaxTime == 4         \* clock ticks in one behaviour
TicksPerSec == 2     \* clock resolution
MaxLookups == 3      \* calls of resolver_lookup in one behaviour of the cache

\* ------------------------------------------------------------------------
\* State
\* ------------------------------------------------------------------------
VARIABLES
    mM,       \* matcher specification: the zone's matchers
    mQ,       \* matcher specification: the qname
    mres,     \* matcher specification: result of does_match
    mpc,      \* matcher specification: "call" before, "done" after the call
    config,   \* the Config (immutable after startup)
    stack,    \* the worker's call stack, innermost frame last
    status,   \* the worker: "idle", "busy", "panicked"; "aborted": process dead
    request,  \* the parsed request message being handled
    response, \* the message handle_request built last
    cache,    \* CACHE: Question -> CacheEntry
    lock,     \* the cache mutex: "free", "held", "poisoned"
    now,      \* the monotonic clock (Instant::now()), in ticks
    upq,      \* history: upstream queries sent, in order
    runs,     \* history: results of the engine runs of handle_request
    nreq,     \* requests received
    parked,   \* the worker threads that are not running: their stack and status
    call,     \* a function of the wire codec or rewrite_xname under call
    srv       \* serve(): the listeners, the job queue and the pool

mvars == <<mM, mQ, mres, mpc>>
evars == <<config, stack, status, request, response, cache, lock, now, upq,
           runs, nreq>>
xvars == <<parked, call, srv>>
vars == <<mM, mQ, mres, mpc, config, stack, status, request, response, cache,
          lock, now, upq, runs, nreq, parked, call, srv>>

NoQuestion == Question(<<>>, 0, 0)
NoRet == [tag |-> "none", answer |-> <<>>, authority |-> <<>>, additional |-> <<>>]
NoMessage == [qr |-> FALSE, aa |-> FALSE, ra |-> FALSE, rcode |-> 0,
              question |-> <<>>, answer |-> <<>>, authority |-> <<>>,
              additional |-> <<>>]
EmptyCache == [q \in {} |-> 0]

NoCall == [op |-> "none"]
NoServe == [on |-> FALSE]

MatchIdle == mM = <<>> /\ mQ = <<>> /\ mres = "none" /\ mpc = "off"
OthersIdle == parked = <<>> /\ call = NoCall /\ srv = NoServe
EngineIdle ==
    /\ config = [zones |-> <<>>]
    /\ stack = <<>>
    /\ status = "off"
    /\ request = NoMessage
    /\ response = NoMessage
    /\ cache = EmptyCache
    /\ lock = "free"
    /\ now = 0
    /\ upq = <<>>
    /\ runs = <<>>
    /\ nreq = 0

\* ------------------------------------------------------------------------
\* Matcher specification: does_match applied to bounded inputs
\* ------------------------------------------------------------------------
RECURSIVE SeqsUpTo(_, _)
SeqsUpTo(S, n) ==
    IF n = 0 THEN {<<>>}
    ELSE LET P == SeqsUpTo(S, n - 1) IN
         P \cup {<<x>> \o p : x \in S, p \in {r \in P : Len(r) = n - 1}}

LiteralLabels == {Basic(co), Basic(ex)}
InnerLabels == LiteralLabels \cup {Wildcard}
LeftmostLabels == InnerLabels \cup {SubWildcard, AllWildcard}

\* matchers with SubWildcard / AllWildcard in the leftmost position only
MatcherPool ==
    {<<>>} \cup {<<l>> \o r : l \in LeftmostLabels,
                             r \in SeqsUpTo(InnerLabels, MaxMatcherLen - 1)}

QnameLabels == {co, Co, ex, ww}
QnamePool == SeqsUpTo(QnameLabels, MaxQnameLen)

InitMatch ==
    /\ mM \in SeqsUpTo(MatcherPool, MaxMatchers) \ {<<>>}
    /\ mQ \in QnamePool
    /\ mres = "none"
    /\ mpc = "call"
    /\ EngineIdle
    /\ OthersIdle

CallDoesMatch ==
    /\ mpc = "call"
    /\ mres' = does_match_r(mM, mQ)
    /\ mpc' = "done"
    /\ UNCHANGED <<mM, mQ>>
    /\ UNCHANGED <<evars, xvars>>

NextMatch == CallDoesMatch

SpecMatch == InitMatch /\ [][NextMatch]_vars

\* ------------------------------------------------------------------------
\* Engine specification: inputs
\* ------------------------------------------------------------------------
exco == <<ex, co>>
wwexco == <<ww, ex, co>>
w2exco == <<w2, ex, co>>
nsexco == <<ns, ex, co>>

Ip6Loopback == <<0, 0, 0, 0, 0, 0, 0, 0, 0, 0, 0, 0, 0, 0, 0, 1>>

zA == Zone(<<<<Basic(ex), Basic(co)>>>>,
           [NoRecords EXCEPT
              !.a = <<[ttl |-> 100, ip4addr |-> <<10, 10, 10, 10>>],
                      [ttl |-> 100, ip4addr |-> <<11, 11, 11, 11>>]>>,
              !.mx = <<[ttl |-> 100, priority |-> 10,
                        host |-> join(<<ww, ex, co>>)]>>])
zAAAA == Zone(<<<<Basic(ex), Basic(co)>>>>,
              [NoRecords EXCEPT
                 !.aaaa = <<[ttl |-> 100, ip6addr |-> Ip6Loopback]>>])
zSub == Zone(<<<<SubWildcard, Basic(co)>>>>,
             [NoRecords EXCEPT
                !.a = <<[ttl |-> 50, ip4addr |-> <<7, 7, 7, 7>>]>>])
zCnameAbs == Zone(<<<<Basic(ww), Basic(ex), Basic(co)>>>>,
                  [NoRecords EXCEPT
                     !.cname = <<[ttl |-> 100, name |-> join(exco) \o <<DOT>>]>>])
zCnameRel == Zone(<<<<Basic(w2), Basic(ex), Basic(co)>>>>,
                  [NoRecords EXCEPT
                     !.cname = <<[ttl |-> 100, name |-> ww]>>])
zNs == Zone(<<<<Basic(ex), Basic(co)>>>>,
            [NoRecords EXCEPT
               !.ns = <<[ttl |-> 100, name |-> join(nsexco)]>>])
zNsCname == Zone(<<<<Basic(ex), Basic(co)>>>>,
                 [NoRecords EXCEPT
                    !.ns = <<[ttl |-> 100, name |-> join(nsexco)]>>,
                    !.cname = <<[ttl |-> 100, name |-> join(nsexco) \o <<DOT>>]>>])
zNsHost == Zone(<<<<Basic(ns), Basic(ex), Basic(co)>>>>,
                [NoRecords EXCEPT
                   !.a = <<[ttl |-> 100, ip4addr |-> <<1, 1, 1, 1>>]>>,
                   !.aaaa = <<[ttl |-> 100, ip6addr |-> Ip6Loopback]>>])
zAname == Zone(<<<<Basic(ex), Basic(co)>>>>,
               [NoRecords EXCEPT
                  !.a = <<[ttl |-> 100, ip4addr |-> <<10, 10, 10, 10>>]>>,
                  !.aname = <<[ttl |-> 100, name |-> join(nsexco) \o <<DOT>>]>>])
zRnsAddr == Zone(<<<<Basic(ex), Basic(co)>>>>,
                 [NoRecords EXCEPT
                    !.rns = <<RnsSocketAddr(Rns1), RnsSocketAddr(Rns2)>>])
zRnsHost == Zone(<<<<Basic(ex), Basic(co)>>>>,
                 [NoRecords EXCEPT
                    !.rns = <<RnsHostPort(join(nsexco), 53, FALSE)>>])
zRnsExt == Zone(<<<<Basic(ex), Basic(co)>>>>,
                [NoRecords EXCEPT
                   !.rns = <<RnsHostPort(join(nsexco), 53, TRUE)>>])
zRnsMixed == Zone(<<<<Basic(ex), Basic(co)>>>>,
                  [NoRecords EXCEPT
                     !.rns = <<RnsHostPort(join(nsexco), 53, FALSE),
                               RnsSocketAddr(Rns2)>>])

ZonePool == {zA, zAAAA, zSub, zCnameAbs, zCnameRel, zNs, zNsCname, zNsHost,
             zAname, zRnsAddr}

\* every configuration of at most MaxZones zones of the pool, the
\* configuration of the test test_cname, and configurations whose recursive
\* name server is given by host name
ConfigPool ==
    {[zones |-> zs] : zs \in SeqsUpTo(ZonePool, MaxZones)}
      \cup {[zones |-> <<zA, zCnameAbs, zCnameRel>>],
            [zones |-> <<zRnsHost>>],
            [zones |-> <<zRnsHost, zNsHost>>],
            [zones |-> <<zRnsMixed, zNsHost>>],
            [zones |-> <<zRnsExt, zNsHost>>]}

QuestionPool ==
    {Question(n, t, 1) :
        n \in {exco, <<Ex, cO>>, wwexco, w2exco},
        t \in {record_type_A, record_type_AAAA, record_type_NS,
               record_type_CNAME, record_type_MX}}

\* parsed requests: well-formed ones, a response sent as a request, and
\* messages with no question or two
Msg(qr, question) == [NoMessage EXCEPT !.qr = qr, !.question = question]
RequestPool ==
    {Msg(FALSE, <<q>>) : q \in QuestionPool}
      \cup {Msg(TRUE, <<Question(exco, record_type_A, 1)>>),
            Msg(FALSE, <<>>),
            Msg(FALSE, <<Question(exco, record_type_A, 1),
                         Question(exco, record_type_NS, 1)>>)}

\* what an upstream server may reply to a question: the records carry the
\* server's address, so replies of different servers differ.  The rcode of a
\* reply is any value of the 4-bit field: 0, one of the five that
\* resolver_lookup names (3, NXDOMAIN) and one it does not (9, NOTAUTH).
UpstreamRdata(question, server) ==
    IF question.qtype = record_type_AAAA
    THEN server.ip \o <<0, 0, 0, 0, 0, 0, 0, 0, 0, 0, 0, 0>>
    ELSE server.ip

Reply(rcode, answer, authority, additional) ==
    [rcode |-> rcode, answer |-> answer, authority |-> authority,
     additional |-> additional]

UpstreamReplies(question, server) ==
    LET rec == Resource(question.qname, question.qtype, 1, Wide(2),
                        UpstreamRdata(question, server))
        nsrec == Resource(question.qname, record_type_NS, 1, Wide(1),
                          serialize_name(nsexco))
    IN {Reply(0, <<rec>>, <<nsrec>>, <<>>),
        Reply(0, <<[rec EXCEPT !.ttl = Wide(0)]>>, <<>>, <<>>),
        Reply(0, <<>>, <<>>, <<>>),
        Reply(3, <<>>, <<>>, <<>>),
        Reply(9, <<>>, <<>>, <<>>)}

\* ------------------------------------------------------------------------
\* Call frames
\* ------------------------------------------------------------------------
Frame(fn, pc, question, server) ==
    [fn |-> fn, pc |-> pc, question |-> question, server |-> server,
     zi |-> 1, ci |-> 1, qi |-> 1,
     answer |-> <<>>, authority |-> <<>>, additional |-> <<>>,
     nq |-> NoQuestion, t0 |-> 0, ret |-> NoRet]

Top == stack[Len(stack)]
Below == SubSeq(stack, 1, Len(stack) - 1)

At(fn, pc) ==
    /\ status = "busy"
    /\ stack # <<>>
    /\ Top.fn = fn
    /\ Top.pc = pc

\* the frame on top continues as f
Goto(f) ==
    /\ stack' = Below \o <<f>>
    /\ status' = status

\* the frame on top, continuing as f, calls callee; a stack that is full
\* overflows, which aborts the process
Call(f, callee) ==
    IF Len(stack) >= MaxDepth
    THEN /\ stack' = <<>>
         /\ status' = "aborted"
    ELSE /\ stack' = Below \o <<f, callee>>
         /\ status' = status

\* the frame on top returns val to its caller
Return(val) ==
    /\ stack' = SubSeq(stack, 1, Len(stack) - 2)
                  \o <<[stack[Len(stack) - 1] EXCEPT !.ret = val]>>
    /\ status' = status

\* the worker thread panics: the job is lost
Panic ==
    /\ stack' = <<>>
    /\ status' = "panicked"

Ok(answer, authority, additional) ==
    [tag |-> "Ok", answer |-> answer, authority |-> authority,
     additional |-> additional]
Failure(tag) == [NoRet EXCEPT !.tag = tag]

\* ------------------------------------------------------------------------
\* handle_request
\* ------------------------------------------------------------------------
InitEngine ==
    /\ MatchIdle
    /\ config \in ConfigPool
    /\ stack = <<>>
    /\ status = "idle"
    /\ request = NoMessage
    /\ response = NoMessage
    /\ cache = EmptyCache
    /\ lock = "free"
    /\ now = 0
    /\ upq = <<>>
    /\ runs = <<>>
    /\ nreq = 0
    /\ OthersIdle

\* mutation: a message with qr set is handled like a request
rejects_count_only(message) == Len(message.question) # 1

\* the panic on a response and the assertion on the question count
rejects(message) == message.qr \/ Len(message.question) # 1

\* a worker takes a request: parse, the qr test, the assertion on the
\* question count, and the first call of handle_dns
ReceiveRequest ==
    /\ status \in {"idle", "panicked"}
    /\ nreq < MaxRequests
    /\ \E message \in RequestPool :
         /\ request' = message
         /\ IF rejects(message)
            THEN Panic
            ELSE /\ status' = "busy"
                 /\ stack' = <<Frame("handle_request", "first_ret",
                                     message.question[1], NoAddr),
                               Frame("handle_dns", "zone",
                                     message.question[1], NoAddr)>>
    /\ nreq' = nreq + 1
    /\ response' = NoMessage
    /\ upq' = <<>>
    /\ runs' = <<>>
    /\ UNCHANGED <<mvars, xvars, config, cache, lock, now>>

\* mutation: the re-run is decided on the answer section
needs_ns_rerun_answer(answer, authority, question) ==
    answer = <<>> /\ question.qtype # record_type_NS

needs_ns_rerun(answer, authority, question) ==
    authority = <<>> /\ question.qtype # record_type_NS

\* the response message: header fields set, sections replaced
build_response(message, answer, authority, additional) ==
    [message EXCEPT !.qr = TRUE, !.aa = TRUE, !.ra = FALSE, !.rcode = 0,
                    !.answer = answer, !.authority = authority,
                    !.additional = additional]

Respond(answer, authority, additional) ==
    /\ response' = build_response(request, answer, authority, additional)
    /\ stack' = <<>>
    /\ status' = "idle"

\* the first handle_dns has returned
HrFirstReturned ==
    /\ At("handle_request", "first_ret")
    /\ LET f == Top
           r == f.ret
       IN IF needs_ns_rerun(r.answer, r.authority, f.question)
          THEN /\ Call([f EXCEPT !.answer = r.answer, !.authority = r.authority,
                                 !.additional = r.additional, !.pc = "ns_ret"],
                       Frame("handle_dns", "zone",
                             [f.question EXCEPT !.qtype = record_type_NS],
                             NoAddr))
               /\ UNCHANGED response
          ELSE Respond(r.answer, r.authority, r.additional)
    /\ UNCHANGED <<mvars, xvars, config, request, cache, lock, now, upq, runs, nreq>>

\* the re-run with qtype NS has returned
HrNsReturned ==
    /\ At("handle_request", "ns_ret")
    /\ LET f == Top
       IN Respond(f.answer, f.authority \o f.ret.authority,
                  f.additional \o f.ret.additional)
    /\ UNCHANGED <<mvars, xvars, config, request, cache, lock, now, upq, runs, nreq>>

\* ------------------------------------------------------------------------
\* handle_dns: the zone loop
\* ------------------------------------------------------------------------
CurrentZone(f) == config.zones[f.zi]

\* loop head of `for zone in &config.zones`: does_match and the match arm
ScanZone ==
    /\ At("handle_dns", "zone")
    /\ LET f == Top IN
       IF f.zi > Len(config.zones) THEN Goto([f EXCEPT !.pc = "return"])
       ELSE LET zone == CurrentZone(f)
                m == does_match_r(zone.matchers, f.question.qname)
                arm == dispatch(zone, f.question.qtype)
            IN IF m = "panic" THEN Panic
               ELSE IF m = "false" THEN Goto([f EXCEPT !.zi = @ + 1])
               ELSE CASE arm = "cname" -> Goto([f EXCEPT !.pc = "cname", !.ci = 1])
                      [] arm = "aname" -> Goto([f EXCEPT !.pc = "aname", !.ci = 1])
                      [] arm = "ns" -> Goto([f EXCEPT !.pc = "ns", !.ci = 1])
                      [] arm = "a" ->
                           Goto([f EXCEPT !.answer = @ \o a_resources(f.question, zone),
                                          !.pc = "rns_gate"])
                      [] arm = "aaaa" ->
                           Goto([f EXCEPT !.answer = @ \o aaaa_resources(f.question, zone),
                                          !.pc = "rns_gate"])
                      [] arm = "mx" ->
                           Goto([f EXCEPT !.answer = @ \o mx_resources(f.question, zone),
                                          !.pc = "rns_gate"])
                      [] OTHER -> Goto([f EXCEPT !.pc = "rns_gate"])
    /\ UNCHANGED <<mvars, xvars, config, request, response, cache, lock, now, upq, runs, nreq>>

\* the test that guards the RNS loop
rns_consulted(f) ==
    /\ f.answer = <<>>
    /\ f.authority = <<>>
    /\ f.question.qtype # record_type_NS

RnsGate ==
    /\ At("handle_dns", "rns_gate")
    /\ LET f == Top IN
       IF rns_consulted(f)
       THEN Goto([f EXCEPT !.pc = "rns", !.ci = 1])
       ELSE Goto([f EXCEPT !.pc = "zone_end"])
    /\ UNCHANGED <<mvars, xvars, config, request, response, cache, lock, now, upq, runs, nreq>>

\* mutation: the search goes on after a zone that answered
search_over_never(f) == FALSE

\* "we've got an answer; break the search"
search_over(f) == f.answer # <<>> \/ f.authority # <<>>

ZoneEnd ==
    /\ At("handle_dns", "zone_end")
    /\ LET f == Top IN
       IF search_over(f)
       THEN Goto([f EXCEPT !.pc = "return"])
       ELSE Goto([f EXCEPT !.zi = @ + 1, !.pc = "zone"])
    /\ UNCHANGED <<mvars, xvars, config, request, response, cache, lock, now, upq, runs, nreq>>

\* return (answer, authority, additional)
ReturnDns ==
    /\ At("handle_dns", "return")
    /\ LET f == Top
           val == [tag |-> "dns", answer |-> f.answer,
                   authority |-> f.authority, additional |-> f.additional]
       IN /\ Return(val)
          /\ runs' = IF Len(stack) = 2
                     THEN Append(runs, [question |-> f.question, zi |-> f.zi,
                                        result |-> val])
                     ELSE runs
    /\ UNCHANGED <<mvars, xvars, config, request, response, cache, lock, now, upq, nreq>>

\* ------------------------------------------------------------------------
\* handle_dns: the CNAME arm
\* ------------------------------------------------------------------------
DnsFrame(question) == Frame("handle_dns", "zone", question, NoAddr)
LookupFrame(question, server) == Frame("resolver_lookup", "lookup", question, server)

\* loop head of `for cname in &zone.records.cname`: push the CNAME record
\* and follow it with a nested handle_dns
CnameLoop ==
    /\ At("handle_dns", "cname")
    /\ LET f == Top
           cnames == CurrentZone(f).records.cname
       IN IF f.ci > Len(cnames) THEN Goto([f EXCEPT !.pc = "rns_gate"])
          ELSE LET new_name == rewrite_xname(cnames[f.ci].name, join(f.question.qname))
                   question == Question(split(new_name), f.question.qtype, 1)
               IN Call([f EXCEPT !.answer = Append(@, cname_resource(f.question,
                                                      cnames[f.ci], new_name)),
                                 !.nq = question,
                                 !.pc = "cname_ret"],
                       DnsFrame(question))
    /\ UNCHANGED <<mvars, xvars, config, request, response, cache, lock, now, upq, runs, nreq>>

\* the nested handle_dns has returned: take its answer, or ask the resolver
CnameReturned ==
    /\ At("handle_dns", "cname_ret")
    /\ LET f == Top IN
       IF Len(f.ret.answer) > 0
       THEN Goto([f EXCEPT !.answer = @ \o f.ret.answer,
                           !.ci = @ + 1, !.pc = "cname"])
       ELSE Call([f EXCEPT !.pc = "cname_rl_ret"], LookupFrame(f.nq, Resolver))
    /\ UNCHANGED <<mvars, xvars, config, request, response, cache, lock, now, upq, runs, nreq>>

CnameLookupReturned ==
    /\ At("handle_dns", "cname_rl_ret")
    /\ LET f == Top IN
       Goto([f EXCEPT !.answer = IF f.ret.tag = "Ok" THEN @ \o f.ret.answer ELSE @,
                      !.ci = @ + 1, !.pc = "cname"])
    /\ UNCHANGED <<mvars, xvars, config, request, response, cache, lock, now, upq, runs, nreq>>

\* ------------------------------------------------------------------------
\* handle_dns: the ANAME arm
\* ------------------------------------------------------------------------
\* the resources of an ANAME target, renamed to the queried name
aname_renamed(f, aname_answer) ==
    LET qname_split == split(join(f.question.qname)) IN
    [i \in 1..Len(aname_answer) |-> [aname_answer[i] EXCEPT !.rname = qname_split]]

AnameLoop ==
    /\ At("handle_dns", "aname")
    /\ LET f == Top
           anames == CurrentZone(f).records.aname
       IN IF f.ci > Len(anames) THEN Goto([f EXCEPT !.pc = "rns_gate"])
          ELSE LET new_name == rewrite_xname(anames[f.ci].name, join(f.question.qname))
                   question == Question(split(new_name), f.question.qtype, 1)
               IN Call([f EXCEPT !.nq = question, !.pc = "aname_ret"],
                       DnsFrame(question))
    /\ UNCHANGED <<mvars, xvars, config, request, response, cache, lock, now, upq, runs, nreq>>

AnameReturned ==
    /\ At("handle_dns", "aname_ret")
    /\ LET f == Top IN
       IF Len(f.ret.answer) = 0
       THEN Call([f EXCEPT !.pc = "aname_rl_ret"], LookupFrame(f.nq, Resolver))
       ELSE Goto([f EXCEPT !.answer = @ \o aname_renamed(f, f.ret.answer),
                           !.ci = @ + 1, !.pc = "aname"])
    /\ UNCHANGED <<mvars, xvars, config, request, response, cache, lock, now, upq, runs, nreq>>

AnameLookupReturned ==
    /\ At("handle_dns", "aname_rl_ret")
    /\ LET f == Top
           aname_answer == IF f.ret.tag = "Ok" THEN f.ret.answer ELSE <<>>
       IN Goto([f EXCEPT !.answer = @ \o aname_renamed(f, aname_answer),
                         !.ci = @ + 1, !.pc = "aname"])
    /\ UNCHANGED <<mvars, xvars, config, request, response, cache, lock, now, upq, runs, nreq>>

\* ------------------------------------------------------------------------
\* handle_dns: the NS arm
\* ------------------------------------------------------------------------
\* loop head of `for ns in &zone.records.ns`: push the NS record to the
\* authority and look up the A records of its name
NsLoop ==
    /\ At("handle_dns", "ns")
    /\ LET f == Top
           nss == CurrentZone(f).records.ns
       IN IF f.ci > Len(nss) THEN Goto([f EXCEPT !.pc = "rns_gate"])
          ELSE LET string_labels == split(nss[f.ci].name)
                   question == Question(string_labels, record_type_A, 1)
               IN Call([f EXCEPT !.authority = Append(@, ns_resource(f.question, nss[f.ci])),
                                 !.nq = question,
                                 !.pc = "ns_a_ret"],
                       DnsFrame(question))
    /\ UNCHANGED <<mvars, xvars, config, request, response, cache, lock, now, upq, runs, nreq>>

\* the A lookup has returned: append it, look up AAAA
NsAReturned ==
    /\ At("handle_dns", "ns_a_ret")
    /\ LET f == Top IN
       Call([f EXCEPT !.additional = @ \o f.ret.answer, !.pc = "ns_aaaa_ret"],
            DnsFrame(Question(f.nq.qname, record_type_AAAA, 1)))
    /\ UNCHANGED <<mvars, xvars, config, request, response, cache, lock, now, upq, runs, nreq>>

NsAaaaReturned ==
    /\ At("handle_dns", "ns_aaaa_ret")
    /\ LET f == Top IN
       Goto([f EXCEPT !.additional = @ \o f.ret.answer,
                      !.ci = @ + 1, !.pc = "ns"])
    /\ UNCHANGED <<mvars, xvars, config, request, response, cache, lock, now, upq, runs, nreq>>

\* ------------------------------------------------------------------------
\* handle_dns: the RNS loop
\* ------------------------------------------------------------------------
\* loop head of `for rns in &zone.records.rns`
RnsLoop ==
    /\ At("handle_dns", "rns")
    /\ LET f == Top
           rnss == CurrentZone(f).records.rns
       IN IF f.ci > Len(rnss) THEN Goto([f EXCEPT !.pc = "zone_end"])
          ELSE IF rnss[f.ci].kind = "SocketAddr"
          THEN Call([f EXCEPT !.pc = "rns_sa_ret"],
                    LookupFrame(f.question, rnss[f.ci].addr))
          ELSE Goto([f EXCEPT !.qi = 1, !.pc = "rns_hp"])
    /\ UNCHANGED <<mvars, xvars, config, request, response, cache, lock, now, upq, runs, nreq>>

\* RnsHost::SocketAddr: the lookup has returned; the loop goes on
RnsAddrReturned ==
    /\ At("handle_dns", "rns_sa_ret")
    /\ LET f == Top IN
       IF f.ret.tag = "Ok"
       THEN Goto([f EXCEPT !.answer = @ \o f.ret.answer,
                           !.authority = @ \o f.ret.authority,
                           !.ci = @ + 1, !.pc = "rns"])
       ELSE Goto([f EXCEPT !.ci = @ + 1, !.pc = "rns"])
    /\ UNCHANGED <<mvars, xvars, config, request, response, cache, lock, now, upq, runs, nreq>>

\* for qtype in &[record_type::AAAA, record_type::A]
HostQtypes == <<record_type_AAAA, record_type_A>>

\* RnsHost::HostPort: loop head of the qtype loop; resolve the host name
RnsHostLoop ==
    /\ At("handle_dns", "rns_hp")
    /\ LET f == Top
           rns == CurrentZone(f).records.rns[f.ci]
       IN IF f.qi > Len(HostQtypes)
          THEN Goto([f EXCEPT !.ci = @ + 1, !.pc = "rns"])
          ELSE LET ns_question == Question(split(rns.host), HostQtypes[f.qi], 1) IN
               IF rns.external
               THEN Call([f EXCEPT !.nq = ns_question, !.pc = "rns_hp_rl_ret"],
                         LookupFrame(ns_question, Resolver))
               ELSE Call([f EXCEPT !.nq = ns_question, !.pc = "rns_hp_dns_ret"],
                         DnsFrame(ns_question))
    /\ UNCHANGED <<mvars, xvars, config, request, response, cache, lock, now, upq, runs, nreq>>

\* `if let Some(addr) = addr`: send the question to the host's address
WithAddr(f, found) ==
    IF found.tag = "panic" THEN Panic
    ELSE IF found.tag = "Some"
    THEN Call([f EXCEPT !.pc = "rns_hp_q_ret"], LookupFrame(f.question, found.addr))
    ELSE Goto([f EXCEPT !.qi = @ + 1, !.pc = "rns_hp"])

\* the internal lookup of the host name has returned
RnsHostDnsReturned ==
    /\ At("handle_dns", "rns_hp_dns_ret")
    /\ LET f == Top
           port == CurrentZone(f).records.rns[f.ci].port
       IN IF Len(f.ret.answer) > 0
          THEN WithAddr(f, handle_response(f.ret.answer, port))
          ELSE Call([f EXCEPT !.pc = "rns_hp_rl_ret"], LookupFrame(f.nq, Resolver))
    /\ UNCHANGED <<mvars, xvars, config, request, response, cache, lock, now, upq, runs, nreq>>

\* the resolver's lookup of the host name has returned
RnsHostLookupReturned ==
    /\ At("handle_dns", "rns_hp_rl_ret")
    /\ LET f == Top
           port == CurrentZone(f).records.rns[f.ci].port
       IN IF f.ret.tag = "Ok"
          THEN WithAddr(f, handle_response(f.ret.answer, port))
          ELSE Goto([f EXCEPT !.qi = @ + 1, !.pc = "rns_hp"])
    /\ UNCHANGED <<mvars, xvars, config, request, response, cache, lock, now, upq, runs, nreq>>

\* the host has answered the question: "only query up until we get an
\* answer" leaves the qtype loop, not the loop over the RNS entries
RnsHostAnswered ==
    /\ At("handle_dns", "rns_hp_q_ret")
    /\ LET f == Top IN
       IF f.ret.tag = "Ok"
       THEN LET answer == f.answer \o f.ret.answer
                authority == f.authority \o f.ret.authority
            IN IF answer # <<>> \/ authority # <<>>
               THEN Goto([f EXCEPT !.answer = answer, !.authority = authority,
                                   !.ci = @ + 1, !.pc = "rns"])
               ELSE Goto([f EXCEPT !.qi = @ + 1, !.pc = "rns_hp"])
       ELSE Goto([f EXCEPT !.qi = @ + 1, !.pc = "rns_hp"])
    /\ UNCHANGED <<mvars, xvars, config, request, response, cache, lock, now, upq, runs, nreq>>

\* ------------------------------------------------------------------------
\* resolver_lookup
\* ------------------------------------------------------------------------
CacheEntry(resp, cache_time, expiration) ==
    [response |-> resp, cache_time |-> cache_time, expiration |-> expiration]

\* mutation: the entry is not stored
cache_insert_dropped(c, question, entry) == c

cache_insert(c, question, entry) ==
    [q \in DOMAIN c \cup {question} |-> IF q = question THEN entry ELSE c[q]]
cache_remove(c, question) ==
    [q \in DOMAIN c \ {question} |-> c[q]]

\* mutation: an entry is served up to and including its expiration
entry_valid_inclusive(entry, t) == ~WideLess(entry.expiration, Wide(t))

\* entry.expiration > Instant::now(), the clock reading t
entry_valid(entry, t) == WideLess(Wide(t), entry.expiration)

\* mutation: lock() returns while another thread holds the mutex
lock_available_always(l) == TRUE

\* CACHE.lock() blocks while another thread holds the mutex; it returns the
\* guard of a free mutex and an error of a poisoned one
lock_available(l) == l # "held"

\* the cache is looked up under the mutex: a valid entry is cloned, an
\* expired one removed; the guard is dropped at the end of the block
RlLookup ==
    /\ At("resolver_lookup", "lookup")
    /\ lock_available(lock)
    /\ LET f == Top IN
       IF lock = "poisoned" THEN Panic /\ UNCHANGED <<cache, lock>>
       ELSE IF f.question \in DOMAIN cache
       THEN LET entry == cache[f.question] IN
            IF entry_valid(entry, now)
            THEN /\ Goto([f EXCEPT !.answer = entry.response.answer,
                                   !.authority = entry.response.authority,
                                   !.additional = entry.response.additional,
                                   !.t0 = now, !.ci = 1, !.pc = "subtract"])
                 /\ lock' = "held"
                 /\ UNCHANGED cache
            ELSE /\ Goto([f EXCEPT !.pc = "connect"])
                 /\ cache' = cache_remove(cache, f.question)
                 /\ UNCHANGED lock
       ELSE /\ Goto([f EXCEPT !.pc = "connect"])
            /\ UNCHANGED <<cache, lock>>
    /\ UNCHANGED <<mvars, xvars, config, request, response, now, upq, runs, nreq>>

\* entry.cache_time.elapsed().as_secs() as u32, the clock reading t
elapsed_secs(cache_time, t) == as_u32(Wide((t - cache_time) \div TicksPerSec))

\* the records of the three sections, chained
Chain(f) == f.answer \o f.authority \o f.additional

\* record i of the chain gets the time to live ttl
WithTtl(f, i, ttl) ==
    IF i <= Len(f.answer) THEN [f EXCEPT !.answer[i].ttl = ttl]
    ELSE IF i <= Len(f.answer) + Len(f.authority)
    THEN [f EXCEPT !.authority[i - Len(f.answer)].ttl = ttl]
    ELSE [f EXCEPT !.additional[i - Len(f.answer) - Len(f.authority)].ttl = ttl]

\* `record.ttl -= elapsed` for one record of the clone, each with its own
\* reading of the clock; after the last record the clone is returned.
\* A subtraction below zero wraps around or, with overflow checks, panics
\* while the mutex is held.
RlSubtract ==
    /\ At("resolver_lookup", "subtract")
    /\ LET f == Top
           entry == cache[f.question]
       IN IF f.ci > Len(Chain(f))
          THEN /\ Return(Ok(f.answer, f.authority, f.additional))
               /\ lock' = "free"
          ELSE LET ttl == Chain(f)[f.ci].ttl
                   elapsed == elapsed_secs(entry.cache_time, now)
               IN IF WideLess(ttl, elapsed)
                  THEN \/ /\ Goto([WithTtl(f, f.ci, wrapping_sub(ttl, elapsed))
                                     EXCEPT !.ci = @ + 1])
                          /\ lock' = "held"
                       \/ /\ Panic
                          /\ lock' = "poisoned"
                  ELSE /\ Goto([WithTtl(f, f.ci, wrapping_sub(ttl, elapsed))
                                  EXCEPT !.ci = @ + 1])
                       /\ lock' = "held"
    /\ UNCHANGED <<mvars, xvars, config, request, response, cache, now, upq, runs, nreq>>

\* TcpStream::connect(server)
RlConnect ==
    /\ At("resolver_lookup", "connect")
    /\ \/ Return(Failure("ServerFailure"))
       \/ Goto([Top EXCEPT !.pc = "exchange"])
    /\ UNCHANGED <<mvars, xvars, config, request, response, cache, lock, now, upq, runs, nreq>>

\* match message.header.rcode
rcode_response(rcode) ==
    CASE rcode = 1 -> "FormatError"
      [] rcode = 2 -> "ServerFailure"
      [] rcode = 3 -> "NameError"
      [] rcode = 4 -> "NotImplemented"
      [] rcode = 5 -> "Refused"
      [] OTHER -> "Ok"

\* the request is written and the reply read and parsed; a stream error
\* panics in unwrap().  The history records the rcode of the reply, -1 when
\* none was read.
RlExchange ==
    /\ At("resolver_lookup", "exchange")
    /\ LET f == Top IN
       \/ \E message \in UpstreamReplies(f.question, f.server) :
            /\ IF rcode_response(message.rcode) # "Ok"
               THEN Return(Failure(rcode_response(message.rcode)))
               ELSE Goto([f EXCEPT !.answer = message.answer,
                                   !.authority = message.authority,
                                   !.additional = message.additional,
                                   !.pc = "insert"])
            /\ upq' = Append(upq, [server |-> f.server, question |-> f.question,
                                   rcode |-> message.rcode])
       \/ /\ Panic
          /\ upq' = Append(upq, [server |-> f.server, question |-> f.question,
                                 rcode |-> -1])
    /\ UNCHANGED <<mvars, xvars, config, request, response, cache, lock, now, runs, nreq>>

\* mutation: the least ttl of no records is 0
RECURSIVE least_ttl_or_zero(_, _)
least_ttl_or_zero(records, least) ==
    IF records = <<>> THEN (IF least = u32_max_value THEN Wide(0) ELSE least)
    ELSE least_ttl_or_zero(Tail(records),
                           IF WideLess(Head(records).ttl, least)
                           THEN Head(records).ttl ELSE least)

\* the least ttl of the records, u32::max_value() when there is none
RECURSIVE least_ttl(_, _)
least_ttl(records, least) ==
    IF records = <<>> THEN least
    ELSE least_ttl(Tail(records),
                   IF WideLess(Head(records).ttl, least)
                   THEN Head(records).ttl ELSE least)

\* the mutex is taken and cache_time read
RlInsert ==
    /\ At("resolver_lookup", "insert")
    /\ lock_available(lock)
    /\ IF lock = "poisoned" THEN Panic /\ UNCHANGED lock
       ELSE /\ Goto([Top EXCEPT !.t0 = now, !.pc = "insert2"])
            /\ lock' = "held"
    /\ UNCHANGED <<mvars, xvars, config, request, response, cache, now, upq, runs, nreq>>

\* Instant::now() + Duration::from_secs(least_expiration as u64)
expiration_at(t, least_expiration) ==
    WideAdd(Wide(t), WideTimes(least_expiration, TicksPerSec))

\* expiration is computed from a second reading of the clock, the entry
\* inserted and the reply returned
RlInsert2 ==
    /\ At("resolver_lookup", "insert2")
    /\ LET f == Top
           least_expiration == least_ttl(Chain(f), u32_max_value)
       IN /\ cache' = cache_insert(cache, f.question,
                         CacheEntry([answer |-> f.answer, authority |-> f.authority,
                                     additional |-> f.additional],
                                    f.t0, expiration_at(now, least_expiration)))
          /\ Return(Ok(f.answer, f.authority, f.additional))
    /\ lock' = "free"
    /\ UNCHANGED <<mvars, xvars, config, request, response, now, upq, runs, nreq>>

\* the monotonic clock advances
Tick ==
    /\ status \in {"idle", "busy"}
    /\ now < MaxTime
    /\ now' = now + 1
    /\ UNCHANGED <<mvars, xvars, config, stack, status, request, response, cache, lock,
                   upq, runs, nreq>>

\* ------------------------------------------------------------------------
\* The engine specification: one worker handling requests
\* ------------------------------------------------------------------------
Next ==
    \/ ReceiveRequest
    \/ HrFirstReturned
    \/ HrNsReturned
    \/ ScanZone
    \/ RnsGate
    \/ ZoneEnd
    \/ ReturnDns
    \/ CnameLoop
    \/ CnameReturned
    \/ CnameLookupReturned
    \/ AnameLoop
    \/ AnameReturned
    \/ AnameLookupReturned
    \/ NsLoop
    \/ NsAReturned
    \/ NsAaaaReturned
    \/ RnsLoop
    \/ RnsAddrReturned
    \/ RnsHostLoop
    \/ RnsHostDnsReturned
    \/ RnsHostLookupReturned
    \/ RnsHostAnswered
    \/ RlLookup
    \/ RlSubtract
    \/ RlConnect
    \/ RlExchange
    \/ RlInsert
    \/ RlInsert2

Spec == InitEngine /\ [][Next]_vars

\* ------------------------------------------------------------------------
\* The cache specification: a worker calling resolver_lookup while the
\* clock advances.  Within the handling of one request the clock of the
\* engine specification stands still; here it moves between any two steps.
\* ------------------------------------------------------------------------
LookupQuestions ==
    {Question(exco, record_type_A, 1), Question(exco, record_type_AAAA, 1)}
LookupServers == {Rns1, Rns2}

InitCache ==
    /\ MatchIdle
    /\ config = [zones |-> <<>>]
    /\ stack = <<>>
    /\ status = "idle"
    /\ request = NoMessage
    /\ response = NoMessage
    /\ cache = EmptyCache
    /\ lock = "free"
    /\ now = 0
    /\ upq = <<>>
    /\ runs = <<>>
    /\ nreq = 0
    /\ OthersIdle

\* a caller of resolver_lookup(question, server)
CallLookup ==
    /\ status \in {"idle", "panicked"}
    /\ nreq < MaxLookups
    /\ \E question \in LookupQuestions, server \in LookupServers :
         stack' = <<Frame("caller", "lookup_ret", question, server),
                    LookupFrame(question, server)>>
    /\ status' = "busy"
    /\ nreq' = nreq + 1
    /\ UNCHANGED <<mvars, xvars, config, request, response, cache, lock, now, upq, runs>>

\* resolver_lookup has returned to its caller
LookupReturned ==
    /\ At("caller", "lookup_ret")
    /\ runs' = Append(runs, [question |-> Top.question, server |-> Top.server,
                             result |-> Top.ret])
    /\ stack' = <<>>
    /\ status' = "idle"
    /\ UNCHANGED <<mvars, xvars, config, request, response, cache, lock, now, upq, nreq>>

NextCache ==
    \/ CallLookup
    \/ LookupReturned
    \/ RlLookup
    \/ RlSubtract
    \/ RlConnect
    \/ RlExchange
    \/ RlInsert
    \/ RlInsert2
    \/ Tick

SpecCache == InitCache /\ [][NextCache]_vars

\* ------------------------------------------------------------------------
\* The workers specification: the worker threads of the pool calling
\* resolver_lookup concurrently.  One thread runs on stack and status, the
\* others are parked; a context switch may happen between any two steps.
\* ------------------------------------------------------------------------
MaxWorkers == 2

Thread(st, su) == [stack |-> st, status |-> su]

InitWorkers ==
    /\ MatchIdle
    /\ config = [zones |-> <<>>]
    /\ stack = <<>>
    /\ status = "idle"
    /\ request = NoMessage
    /\ response = NoMessage
    /\ cache = EmptyCache
    /\ lock = "free"
    /\ now = 0
    /\ upq = <<>>
    /\ runs = <<>>
    /\ nreq = 0
    /\ parked = [i \in 1..(MaxWorkers - 1) |-> Thread(<<>>, "idle")]
    /\ call = NoCall
    /\ srv = NoServe

\* the scheduler runs another worker thread
Switch ==
    /\ \E i \in DOMAIN parked :
         /\ stack' = parked[i].stack
         /\ status' = parked[i].status
         /\ parked' = [parked EXCEPT ![i] = Thread(stack, status)]
    /\ UNCHANGED <<mvars, call, srv, config, request, response, cache, lock, now,
                   upq, runs, nreq>>

NextWorkers ==
    \/ CallLookup
    \/ LookupReturned
    \/ RlLookup
    \/ RlSubtract
    \/ RlConnect
    \/ RlExchange
    \/ RlInsert
    \/ RlInsert2
    \/ Switch

SpecWorkers == InitWorkers /\ [][NextWorkers]_vars

\* ------------------------------------------------------------------------
\* The wire codec: serialize
\* ------------------------------------------------------------------------
Header(id, qr, opcode, aa, tc, rd, ra, z, rcode) ==
    [id |-> id, qr |-> qr, opcode |-> opcode, aa |-> aa, tc |-> tc, rd |-> rd,
     ra |-> ra, z |-> z, rcode |-> rcode]

\* Option<Edns>: None, and Some(Edns)
NoEdns ==
    [some |-> FALSE, udp_payload_size |-> 0,
     extended_rcode_and_flags |-> Wide(0), options |-> <<>>]
Edns(udp_payload_size, extended_rcode_and_flags, options) ==
    [some |-> TRUE, udp_payload_size |-> udp_payload_size,
     extended_rcode_and_flags |-> extended_rcode_and_flags, options |-> options]
EdnsOption(code, data) == [code |-> code, data |-> data]

Message(header, question, answer, authority, additional, edns) ==
    [header |-> header, question |-> question, answer |-> answer,
     authority |-> authority, additional |-> additional, edns |-> edns]

\* a | b on unsigned integers
RECURSIVE BitOr(_, _)
BitOr(a, b) ==
    IF a = 0 THEN b
    ELSE IF b = 0 THEN a
    ELSE (IF a % 2 = 1 \/ b % 2 = 1 THEN 1 ELSE 0) + 2 * BitOr(a \div 2, b \div 2)

Bit(b) == IF b THEN 1 ELSE 0

\* big-endian writes
write_u16(n) == <<n \div U8, n % U8>>
write_u32(w) == write_u16(w.hi) \o write_u16(w.lo)

RECURSIVE name_len(_)
name_len(name) ==
    IF name = <<>> THEN 1 ELSE 1 + Len(Head(name)) + name_len(Tail(name))

\* mutation: the bytes of rdata are not counted
resource_increase_fixed(a) == name_len(a.rname) + 10

question_increase(q) == name_len(q.qname) + 4
resource_increase(a) == name_len(a.rname) + 10 + Len(a.rdata)

\* mutation: an entry that fills the available size exactly is left out
RECURSIVE fit_exclusive(_, _, _, _)
fit_exclusive(size, increases, index, available_size) ==
    IF index > Len(increases)
    THEN [size |-> size, kept |-> Len(increases), truncated |-> FALSE]
    ELSE IF size + increases[index] >= available_size
    THEN [size |-> size, kept |-> index - 1, truncated |-> TRUE]
    ELSE fit_exclusive(size + increases[index], increases, index + 1, available_size)

\* one loop of compute_truncation over the entries of a section, from
\* entry index on: the size reached, the number of entries kept and
\* whether the loop returned early
RECURSIVE fit(_, _, _, _)
fit(size, increases, index, available_size) ==
    IF index > Len(increases)
    THEN [size |-> size, kept |-> Len(increases), truncated |-> FALSE]
    ELSE IF size + increases[index] > available_size
    THEN [size |-> size, kept |-> index - 1, truncated |-> TRUE]
    ELSE fit(size + increases[index], increases, index + 1, available_size)

Truncation(size, truncated, question, answer, authority, additional) ==
    [size |-> size, truncated |-> truncated, question |-> question,
     answer |-> answer, authority |-> authority, additional |-> additional]

compute_truncation(available_size, question, answer, authority, additional) ==
    LET fq == fit(12, [i \in DOMAIN question |-> question_increase(question[i])],
                  1, available_size)
        fa == fit(fq.size, [i \in DOMAIN answer |-> resource_increase(answer[i])],
                  1, available_size)
        fu == fit(fa.size, [i \in DOMAIN authority |-> resource_increase(authority[i])],
                  1, available_size)
        fd == fit(fu.size, [i \in DOMAIN additional |-> resource_increase(additional[i])],
                  1, available_size)
    IN IF fq.truncated
       THEN Truncation(fq.size, TRUE, SubSeq(question, 1, fq.kept), <<>>, <<>>, <<>>)
       ELSE IF fa.truncated
       THEN Truncation(fa.size, TRUE, question, SubSeq(answer, 1, fa.kept), <<>>, <<>>)
       ELSE IF fu.truncated
       THEN Truncation(fu.size, TRUE, question, answer,
                       SubSeq(authority, 1, fu.kept), <<>>)
       ELSE IF fd.truncated
       THEN Truncation(fd.size, TRUE, question, answer, authority,
                       SubSeq(additional, 1, fd.kept))
       ELSE Truncation(fd.size, FALSE, question, answer, authority, additional)

\* mutation: the tc bit is never set
write_flags_untruncated(header, truncated) ==
    LET f1 == BitOr(0, header.rcode)
        f2 == BitOr(f1, (header.z * 16) % U8)
        f3 == BitOr(f2, Bit(header.ra) * 128)
        f4 == BitOr(f3, Bit(header.rd) * 256)
        f6 == BitOr(f4, Bit(header.aa) * 1024)
        f7 == BitOr(f6, (header.opcode * 2048) % U16)
    IN BitOr(f7, Bit(header.qr) * 32768)

\* the flags word of the header, the tc bit being that of truncated
write_flags(header, truncated) ==
    LET f1 == BitOr(0, header.rcode)
        f2 == BitOr(f1, (header.z * 16) % U8)
        f3 == BitOr(f2, Bit(header.ra) * 128)
        f4 == BitOr(f3, Bit(header.rd) * 256)
        f5 == BitOr(f4, Bit(truncated) * 512)
        f6 == BitOr(f5, Bit(header.aa) * 1024)
        f7 == BitOr(f6, (header.opcode * 2048) % U16)
    IN BitOr(f7, Bit(header.qr) * 32768)

write_question(q) ==
    serialize_name(q.qname) \o write_u16(q.qtype) \o write_u16(q.qclass)

write_resource(resource) ==
    serialize_name(resource.rname) \o write_u16(resource.rtype)
      \o write_u16(resource.rclass) \o write_u32(resource.ttl)
      \o write_u16(Len(resource.rdata) % U16) \o resource.rdata

RECURSIVE write_questions(_)
write_questions(questions) ==
    IF questions = <<>> THEN <<>>
    ELSE write_question(Head(questions)) \o write_questions(Tail(questions))

RECURSIVE write_resources(_)
write_resources(resources) ==
    IF resources = <<>> THEN <<>>
    ELSE write_resource(Head(resources)) \o write_resources(Tail(resources))

\* mutation: the OPT pseudo-record announces 4096 bytes
opt_resource_4096 == Resource(<<>>, 41, 4096, Wide(0), <<>>)

\* the OPT pseudo-record serialize appends when the message has EDNS
opt_resource == Resource(<<>>, 41, U16 - 1, Wide(0), <<>>)

\* mutation: the limit of TCP for every transport
available_size_tcp(message, tcp) == U16 - 1

available_size(message, tcp) ==
    IF tcp THEN U16 - 1
    ELSE IF message.edns.some THEN message.edns.udp_payload_size ELSE 512

\* serialize(message, tcp): the bytes written.  The two assertions hold of
\* every message: the size computed never passes the available size once
\* an entry is counted, and what is written is what was counted.
serialize(message, tcp) ==
    LET additional == IF ~message.edns.some THEN message.additional
                      ELSE Append(message.additional, opt_resource)
        t == compute_truncation(available_size(message, tcp), message.question,
                                message.answer, message.authority, additional)
    IN write_u16(message.header.id)
         \o write_u16(write_flags(message.header, t.truncated))
         \o write_u16(Len(t.question) % U16)
         \o write_u16(Len(t.answer) % U16)
         \o write_u16(Len(t.authority) % U16)
         \o write_u16(Len(t.additional) % U16)
         \o write_questions(t.question)
         \o write_resources(t.answer)
         \o write_resources(t.authority)
         \o write_resources(t.additional)

\* ------------------------------------------------------------------------
\* The serialize specification: serialize applied to bounded messages
\* ------------------------------------------------------------------------
MaxPayload == 90

PayloadSizes == 0..MaxPayload \cup {512, U16 - 1}

ARecord(ttl) == Resource(exco, record_type_A, 1, Wide(ttl), <<127, 0, 0, 1>>)
NsRecord == Resource(exco, record_type_NS, 1, Wide(60), serialize_name(nsexco))
GlueRecord == Resource(nsexco, record_type_A, 1, Wide(60), <<10, 0, 0, 1>>)

\* the header of a response as handle_request leaves it
ResponseHeader == Header(7, TRUE, 0, TRUE, FALSE, TRUE, FALSE, 0, 0)

SectionsPool ==
    {<<<<>>, <<>>, <<>>>>,
     <<<<ARecord(60)>>, <<>>, <<>>>>,
     <<<<ARecord(60), ARecord(30)>>, <<NsRecord>>, <<>>>>,
     <<<<ARecord(60)>>, <<NsRecord>>, <<GlueRecord>>>>,
     <<<<>>, <<NsRecord>>, <<GlueRecord>>>>}

SerializePool ==
    {Message(ResponseHeader, <<Question(exco, record_type_A, 1)>>,
             s[1], s[2], s[3], e) :
        s \in SectionsPool,
        e \in {NoEdns} \cup {Edns(p, Wide(0), <<>>) : p \in PayloadSizes}}

InitSerialize ==
    /\ MatchIdle
    /\ EngineIdle
    /\ parked = <<>>
    /\ srv = NoServe
    /\ \E message \in SerializePool, tcp \in BOOLEAN :
         call = [op |-> "serialize", st |-> "call", message |-> message,
                 tcp |-> tcp, out |-> <<>>]

CallSerialize ==
    /\ call.op = "serialize"
    /\ call.st = "call"
    /\ call' = [call EXCEPT !.st = "done",
                            !.out = serialize(call.message, call.tcp)]
    /\ UNCHANGED <<mvars, evars, parked, srv>>

NextSerialize == CallSerialize

SpecSerialize == InitSerialize /\ [][NextSerialize]_vars

\* ------------------------------------------------------------------------
\* The wire codec: parse
\* ------------------------------------------------------------------------
\* cursor.read_*: are n more bytes there at position pos (counted from 0)
can_read(buf, pos, n) == pos + n <= Len(buf)
read_u8(buf, pos) == buf[pos + 1]
read_u16(buf, pos) == buf[pos + 1] * U8 + buf[pos + 2]
read_u32(buf, pos) == [hi |-> read_u16(buf, pos), lo |-> read_u16(buf, pos + 2)]
read_exact(buf, pos, n) == SubSeq(buf, pos + 1, pos + n)

\* String::from_utf8 fails.  Of the bytes from 0x80 up the inputs hold only
\* 0xFF, which no UTF-8 text contains; ASCII is always valid.
from_utf8_error(bytes) == \E i \in DOMAIN bytes : bytes[i] >= 128

\* parse_name at the head of its loop: cursor is the position of the
\* caller's cursor, label_cursor that of the cursor the labels are read
\* from (the same one until the first pointer is followed)
NameState(buf, pos) ==
    [buf |-> buf, cursor |-> pos, label_cursor |-> pos, cloned |-> FALSE,
     result |-> <<>>, st |-> "run"]

\* one iteration of the loop of parse_name
parse_name_step(n) ==
    IF ~can_read(n.buf, n.label_cursor, 1) THEN [n EXCEPT !.st = "panic"]
    ELSE LET label_size == read_u8(n.buf, n.label_cursor)
             at == n.label_cursor + 1
         IN IF label_size = 0
            THEN [n EXCEPT !.st = "ok", !.label_cursor = at,
                           !.cursor = IF n.cloned THEN @ ELSE at]
            ELSE IF label_size \div 64 = 3
            THEN IF ~can_read(n.buf, at, 1) THEN [n EXCEPT !.st = "panic"]
                 ELSE [n EXCEPT !.label_cursor =
                                   (label_size % 64) * U8 + read_u8(n.buf, at),
                                !.cursor = IF n.cloned THEN @ ELSE at + 1,
                                !.cloned = TRUE]
            ELSE IF ~can_read(n.buf, at, label_size)
                    \/ from_utf8_error(read_exact(n.buf, at, label_size))
            THEN [n EXCEPT !.st = "panic"]
            ELSE [n EXCEPT !.result = Append(@, read_exact(n.buf, at, label_size)),
                           !.label_cursor = at + label_size,
                           !.cursor = IF n.cloned THEN @ ELSE at + label_size]

\* the loop run from n on, seen being the positions it has read at
RECURSIVE parse_name_run(_, _)
parse_name_run(n, seen) ==
    IF n.st # "run" THEN n
    ELSE IF n.label_cursor \in seen THEN [n EXCEPT !.st = "loop"]
    ELSE parse_name_run(parse_name_step(n), seen \cup {n.label_cursor})

\* parse_name(cursor).  What an iteration does depends on the position it
\* reads at alone, so a loop that comes to read at one position twice never
\* ends: st is then "loop".
parse_name(buf, pos) == parse_name_run(NameState(buf, pos), {})

\* the result of a reader: st is "ok", "panic" or "loop"
Read(st, val, pos) == [st |-> st, val |-> val, pos |-> pos]

RECURSIVE parse_questions(_, _, _, _)
parse_questions(buf, pos, count, acc) ==
    IF count = 0 THEN Read("ok", acc, pos)
    ELSE LET n == parse_name(buf, pos) IN
         IF n.st # "ok" THEN Read(n.st, acc, pos)
         ELSE IF ~can_read(buf, n.cursor, 4) THEN Read("panic", acc, pos)
         ELSE parse_questions(buf, n.cursor + 4, count - 1,
                  Append(acc, Question(n.result, read_u16(buf, n.cursor),
                                       read_u16(buf, n.cursor + 2))))

\* the rdata of a resource whose fixed fields end at pos
read_rdata(buf, pos, rtype, rdata_len) ==
    IF rtype \in {record_type_CNAME, record_type_NS}
    THEN LET n == parse_name(buf, pos) IN
         Read(n.st, serialize_name(n.result), n.cursor)
    ELSE IF rtype = record_type_MX
    THEN IF ~can_read(buf, pos, 2) THEN Read("panic", <<>>, pos)
         ELSE LET n == parse_name(buf, pos + 2) IN
              Read(n.st, read_exact(buf, pos, 2) \o serialize_name(n.result),
                   n.cursor)
    ELSE IF ~can_read(buf, pos, rdata_len) THEN Read("panic", <<>>, pos)
         ELSE Read("ok", read_exact(buf, pos, rdata_len), pos + rdata_len)

RECURSIVE read_resources(_, _, _, _)
read_resources(buf, pos, count, acc) ==
    IF count = 0 THEN Read("ok", acc, pos)
    ELSE LET n == parse_name(buf, pos) IN
         IF n.st # "ok" THEN Read(n.st, acc, pos)
         ELSE IF ~can_read(buf, n.cursor, 10) THEN Read("panic", acc, pos)
         ELSE LET rtype == read_u16(buf, n.cursor)
                  rdata == read_rdata(buf, n.cursor + 10, rtype,
                                      read_u16(buf, n.cursor + 8))
              IN IF rdata.st # "ok" THEN Read(rdata.st, acc, pos)
                 ELSE read_resources(buf, rdata.pos, count - 1,
                          Append(acc, Resource(n.result, rtype,
                                               read_u16(buf, n.cursor + 2),
                                               read_u32(buf, n.cursor + 4),
                                               rdata.val)))

\* the options of an OPT record
RECURSIVE read_options(_, _, _)
read_options(rdata, pos, acc) ==
    IF pos >= Len(rdata) THEN Read("ok", acc, pos)
    ELSE IF ~can_read(rdata, pos, 4) THEN Read("panic", acc, pos)
    ELSE LET length == read_u16(rdata, pos + 2) IN
         IF ~can_read(rdata, pos + 4, length) THEN Read("panic", acc, pos)
         ELSE read_options(rdata, pos + 4 + length,
                  Append(acc, EdnsOption(read_u16(rdata, pos),
                                         read_exact(rdata, pos + 4, length))))

\* the filter over the additional section: OPT records (rtype 41) are
\* taken out, each one setting message.edns
RECURSIVE filter_opt(_, _, _)
filter_opt(resources, kept, edns) ==
    IF resources = <<>> THEN Read("ok", kept, edns)
    ELSE LET x == Head(resources) IN
         IF x.rtype = 41
         THEN LET options == read_options(x.rdata, 0, <<>>) IN
              IF options.st # "ok" THEN Read("panic", kept, edns)
              ELSE filter_opt(Tail(resources), kept,
                              Edns(x.rclass, x.ttl, options.val))
         ELSE filter_opt(Tail(resources), Append(kept, x), edns)

parse_header(buf) ==
    LET flags == read_u16(buf, 2) IN
    Header(read_u16(buf, 0), flags \div 32768 = 1, (flags \div 2048) % 16,
           (flags \div 1024) % 2 = 1, (flags \div 512) % 2 = 1,
           (flags \div 256) % 2 = 1, (flags \div 128) % 2 = 1,
           (flags \div 16) % 8, flags % 16)

NoParse == Message(Header(0, FALSE, 0, FALSE, FALSE, FALSE, FALSE, 0, 0),
                   <<>>, <<>>, <<>>, <<>>, NoEdns)

\* parse(buf): st "ok" with the message, "panic" when an unwrap() fails,
\* "loop" when parse_name never returns
parse(buf) ==
    IF ~can_read(buf, 0, 12) THEN [st |-> "panic", message |-> NoParse]
    ELSE
    LET question == parse_questions(buf, 12, read_u16(buf, 4), <<>>)
        answer == read_resources(buf, question.pos, read_u16(buf, 6), <<>>)
        authority == read_resources(buf, answer.pos, read_u16(buf, 8), <<>>)
        additional == read_resources(buf, authority.pos, read_u16(buf, 10), <<>>)
        filtered == filter_opt(additional.val, <<>>, NoEdns)
    IN IF question.st # "ok" THEN [st |-> question.st, message |-> NoParse]
       ELSE IF answer.st # "ok" THEN [st |-> answer.st, message |-> NoParse]
       ELSE IF authority.st # "ok" THEN [st |-> authority.st, message |-> NoParse]
       ELSE IF additional.st # "ok" THEN [st |-> additional.st, message |-> NoParse]
       ELSE IF filtered.st # "ok" THEN [st |-> "panic", message |-> NoParse]
       ELSE [st |-> "ok",
             message |-> Message(parse_header(buf), question.val, answer.val,
                                 authority.val, filtered.val, filtered.pos)]

\* ------------------------------------------------------------------------
\* The round trip specification: parse, then serialize over TCP, applied to
\* well-formed messages
\* ------------------------------------------------------------------------
\* a message as a client or an upstream server puts it on the wire: the tc
\* bit is the sender's, an OPT record is one of the additional records
WireBytes(header, question, answer, authority, additional) ==
    write_u16(header.id) \o write_u16(write_flags(header, header.tc))
      \o write_u16(Len(question)) \o write_u16(Len(answer))
      \o write_u16(Len(authority)) \o write_u16(Len(additional))
      \o write_questions(question) \o write_resources(answer)
      \o write_resources(authority) \o write_resources(additional)

\* OPT with udp_payload_size 4096, the DO flag and one option
OptRecord == Resource(<<>>, 41, 4096, [hi |-> 0, lo |-> 32768],
                      <<0, 10, 0, 2, 171, 205>>)

CnameRecord14 == Resource(wwexco, record_type_CNAME, 1, [hi |-> 1, lo |-> 60],
                          serialize_name(exco))
MxRecord == Resource(exco, record_type_MX, 1, Wide(300),
                     <<0, 10>> \o serialize_name(nsexco))

HeaderPool ==
    {Header(id, qr, opcode, qr, tc, TRUE, qr, z, rcode) :
        id \in {7}, qr \in BOOLEAN, opcode \in {0, 2}, tc \in BOOLEAN,
        z \in {0, 5}, rcode \in {0, 3}}

RoundTripSections ==
    {<<<<>>, <<>>>>,
     <<<<ARecord(60)>>, <<NsRecord>>>>,
     <<<<CnameRecord14, ARecord(30)>>, <<>>>>,
     <<<<MxRecord>>, <<NsRecord>>>>}

\* a response whose CNAME record is compressed: rname is one label followed by a
\* pointer to the question's name at offset 12, rdata a pointer to it
CompressedBytes(header) ==
    write_u16(header.id) \o write_u16(write_flags(header, header.tc))
      \o write_u16(1) \o write_u16(1) \o write_u16(0) \o write_u16(0)
      \o write_question(Question(exco, record_type_A, 1))
      \o <<Len(ww)>> \o ww \o <<192, 12>>
      \o write_u16(record_type_CNAME) \o write_u16(1) \o write_u32(Wide(60))
      \o write_u16(2) \o <<192, 12>>

WirePool ==
    {WireBytes(h, <<Question(exco, record_type_A, 1)>>, s[1], s[2], ad) :
        h \in HeaderPool, s \in RoundTripSections,
        ad \in {<<>>, <<GlueRecord>>, <<OptRecord>>, <<GlueRecord, OptRecord>>}}
      \cup {CompressedBytes(h) : h \in HeaderPool}

InitRoundTrip ==
    /\ MatchIdle
    /\ EngineIdle
    /\ parked = <<>>
    /\ srv = NoServe
    /\ \E bytes \in WirePool :
         call = [op |-> "roundtrip", st |-> "call", bytes |-> bytes,
                 parsed |-> [st |-> "none", message |-> NoParse], out |-> <<>>]

CallParse ==
    /\ call.op = "roundtrip"
    /\ call.st = "call"
    /\ call' = [call EXCEPT !.st = "parsed", !.parsed = parse(call.bytes)]
    /\ UNCHANGED <<mvars, evars, parked, srv>>

CallSerializeParsed ==
    /\ call.op = "roundtrip"
    /\ call.st = "parsed"
    /\ call.parsed.st = "ok"
    /\ call' = [call EXCEPT !.st = "done",
                            !.out = serialize(call.parsed.message, TRUE)]
    /\ UNCHANGED <<mvars, evars, parked, srv>>

NextRoundTrip ==
    \/ CallParse
    \/ CallSerializeParsed

SpecRoundTrip == InitRoundTrip /\ [][NextRoundTrip]_vars

\* ------------------------------------------------------------------------
\* The name specification: the loop of parse_name, one iteration a step
\* ------------------------------------------------------------------------
MaxSteps == 9

\* buffers of names: plain, with a pointer forward and backward, with a
\* pointer to itself, with two pointers to one another, with a label before
\* a pointer back to it, cut short, and with a pointer past the end
NamePool ==
    {<<2>> \o co \o <<0>>,
     <<2>> \o ex \o <<2>> \o co \o <<0>>,
     <<192, 2, 2>> \o co \o <<0>>,
     <<2>> \o co \o <<0, 192, 0>>,
     <<2>> \o ex \o <<192, 5, 2>> \o co \o <<0>>,
     <<192, 0>>,
     <<0, 192, 1>>,
     <<192, 2, 192, 0>>,
     <<2>> \o co \o <<192, 0>>,
     <<2>> \o co,
     <<192>>,
     <<192, 9>>,
     <<1, 255, 0>>}

InitName ==
    /\ MatchIdle
    /\ EngineIdle
    /\ parked = <<>>
    /\ srv = NoServe
    /\ \E buf \in NamePool :
         \E pos \in 0..(Len(buf) - 1) :
           call = [op |-> "parse_name", n |-> NameState(buf, pos), steps |-> 0]

\* one iteration of the loop; the model follows it for MaxSteps iterations
NameStep ==
    /\ call.op = "parse_name"
    /\ call.n.st = "run"
    /\ call.steps < MaxSteps
    /\ call' = [call EXCEPT !.n = parse_name_step(call.n), !.steps = @ + 1]
    /\ UNCHANGED <<mvars, evars, parked, srv>>

NextName == NameStep

SpecName == InitName /\ [][NextName]_vars

\* ------------------------------------------------------------------------
\* The xname specification: rewrite_xname applied to bounded strings
\* ------------------------------------------------------------------------
XnamePool ==
    {join(<<ns>>), join(<<ns>>) \o <<DOT>>, join(exco), join(exco) \o <<DOT>>,
     join(<<ww>>), join(<<ww>>) \o <<DOT>>, join(nsexco) \o <<DOT>>, <<DOT>>}

XnameQnames ==
    {join(<<co>>), join(<<ex>>), join(exco), join(wwexco), join(<<Ex, cO>>),
     join(nsexco), join(w2exco)}

InitXname ==
    /\ MatchIdle
    /\ EngineIdle
    /\ parked = <<>>
    /\ srv = NoServe
    /\ \E xname_destination \in XnamePool, qname \in XnameQnames :
         call = [op |-> "rewrite_xname", st |-> "call",
                 xname_destination |-> xname_destination, qname |-> qname,
                 out |-> <<>>]

CallRewriteXname ==
    /\ call.op = "rewrite_xname"
    /\ call.st = "call"
    /\ call' = [call EXCEPT !.st = "done",
                            !.out = rewrite_xname(call.xname_destination,
                                                  call.qname)]
    /\ UNCHANGED <<mvars, evars, parked, srv>>

NextXname == CallRewriteXname

SpecXname == InitXname /\ [][NextXname]_vars

\* ------------------------------------------------------------------------
\* serve: the two listener threads and the worker pool
\* ------------------------------------------------------------------------
MaxArrivals == 3
\* options.threads
PoolThreads == 2

QueryHeader == Header(7, FALSE, 0, FALSE, FALSE, TRUE, FALSE, 0, 0)
QueryQuestion == Question(exco, record_type_A, 1)

\* requests as bytes: well-formed ones (one with an OPT record), a response
\* sent as a request, no question, two questions, a label that is not
\* UTF-8, a header cut short, and a name that is a pointer to itself
GoodRequests ==
    {WireBytes(QueryHeader, <<QueryQuestion>>, <<>>, <<>>, <<>>),
     WireBytes(QueryHeader, <<QueryQuestion>>, <<>>, <<>>, <<OptRecord>>)}
FailingRequests ==
    {WireBytes([QueryHeader EXCEPT !.qr = TRUE], <<QueryQuestion>>, <<>>, <<>>, <<>>),
     WireBytes(QueryHeader, <<>>, <<>>, <<>>, <<>>),
     WireBytes(QueryHeader, <<QueryQuestion, QueryQuestion>>, <<>>, <<>>, <<>>),
     WireBytes(QueryHeader, <<Question(<<<<255>>>>, record_type_A, 1)>>,
               <<>>, <<>>, <<>>),
     <<0, 7, 1, 0, 0>>,
     write_u16(7) \o write_u16(256) \o write_u16(1) \o write_u16(0)
       \o write_u16(0) \o write_u16(0) \o <<192, 12>> \o write_u16(1)
       \o write_u16(1)}
RequestBytes == GoodRequests \cup FailingRequests

\* what a TCP client does after it has connected: send the length and the
\* message, send nothing and stay, or close
TcpClients ==
    {[kind |-> "sends", bytes |-> b] : b \in RequestBytes}
      \cup {[kind |-> "silent", bytes |-> <<>>], [kind |-> "closes", bytes |-> <<>>]}

\* the buffer of the UDP listener after recv_from: 512 zero bytes, the
\* datagram written over the first of them
recv_buf(datagram) ==
    [i \in 1..512 |-> IF i <= Len(datagram) THEN datagram[i] ELSE 0]

Job(id, tcp, buf) == [id |-> id, tcp |-> tcp, buf |-> buf]

\* the buffer the closure of a job hands to handle_request
job_buf(job) == IF job.tcp THEN job.buf ELSE recv_buf(job.buf)

\* handle_request after parse: the panic on a response and the assertion
\* on the question count
rejects_parsed(message) ==
    message.header.qr \/ Len(message.question) # 1

\* the message handle_request serializes, under a configuration without
\* zones, for which both calls of handle_dns return three empty sections
response_message(message) ==
    [message EXCEPT !.header.qr = TRUE, !.header.aa = TRUE,
                    !.header.ra = FALSE, !.header.rcode = 0,
                    !.answer = <<>>, !.authority = <<>>, !.additional = <<>>]

\* a worker thread running the closure of a job: at pc "parse" in
\* protocol::parse, at "handle" after it
Running(job, pc, message) ==
    [id |-> job.id, tcp |-> job.tcp, buf |-> job_buf(job), pc |-> pc,
     message |-> message]

ServeIdle ==
    [on |-> TRUE, udp |-> "recv_from", tcp |-> "accept",
     stream |-> [kind |-> "none", bytes |-> <<>>, id |-> 0], backlog |-> <<>>,
     queue |-> <<>>, running |-> {}, idle |-> PoolThreads, sent |-> <<>>,
     arrivals |-> 0]

InitServe ==
    /\ MatchIdle
    /\ EngineIdle
    /\ parked = <<>>
    /\ call = NoCall
    /\ srv = ServeIdle

\* the UDP listener: recv_from returns a datagram and the job is handed to
\* the pool; execute() queues the job without waiting for a worker
UdpReceive ==
    /\ srv.on
    /\ srv.udp = "recv_from"
    /\ srv.arrivals < MaxArrivals
    /\ \E datagram \in RequestBytes :
         srv' = [srv EXCEPT !.arrivals = @ + 1,
                            !.queue = Append(@, Job(srv.arrivals + 1, FALSE,
                                                    datagram))]
    /\ UNCHANGED <<mvars, evars, parked, call>>

\* a TCP client connects; the connection waits to be accepted
TcpConnect ==
    /\ srv.on
    /\ srv.arrivals < MaxArrivals
    /\ \E client \in TcpClients :
         srv' = [srv EXCEPT !.arrivals = @ + 1,
                            !.backlog = Append(@, [kind |-> client.kind,
                                                   bytes |-> client.bytes,
                                                   id |-> srv.arrivals + 1])]
    /\ UNCHANGED <<mvars, evars, parked, call>>

\* the TCP listener: accept() returns a connection
TcpAccept ==
    /\ srv.on
    /\ srv.tcp = "accept"
    /\ srv.backlog # <<>>
    /\ srv' = [srv EXCEPT !.tcp = "read", !.stream = Head(srv.backlog),
                          !.backlog = Tail(@)]
    /\ UNCHANGED <<mvars, evars, parked, call>>

\* the TCP listener reads the length and the message from the stream it
\* accepted and hands the job to the pool.  The reads wait for the client;
\* when the client has closed, read_u16().unwrap() panics and the listener
\* thread ends.
TcpRead ==
    /\ srv.on
    /\ srv.tcp = "read"
    /\ srv.stream.kind # "silent"
    /\ IF srv.stream.kind = "closes"
       THEN srv' = [srv EXCEPT !.tcp = "dead", !.stream = ServeIdle.stream]
       ELSE srv' = [srv EXCEPT !.tcp = "accept", !.stream = ServeIdle.stream,
                               !.queue = Append(@, Job(srv.stream.id, TRUE,
                                                       srv.stream.bytes))]
    /\ UNCHANGED <<mvars, evars, parked, call>>

\* a worker thread of the pool takes the next job and calls handle_request
WorkerTake ==
    /\ srv.on
    /\ srv.idle > 0
    /\ srv.queue # <<>>
    /\ srv' = [srv EXCEPT !.idle = @ - 1, !.queue = Tail(@),
                          !.running = @ \cup {Running(Head(srv.queue), "parse",
                                                      NoParse)}]
    /\ UNCHANGED <<mvars, evars, parked, call>>

\* protocol::parse returns the message or panics in an unwrap(); the panic
\* ends the job and the pool replaces the thread.  A parse that does not
\* return keeps its thread for ever.
WorkerParse ==
    /\ srv.on
    /\ \E w \in srv.running :
         /\ w.pc = "parse"
         /\ LET p == parse(w.buf) IN
            /\ p.st # "loop"
            /\ srv' = IF p.st = "ok"
                      THEN [srv EXCEPT !.running =
                               (@ \ {w}) \cup {[w EXCEPT !.pc = "handle",
                                                         !.message = p.message]}]
                      ELSE [srv EXCEPT !.running = @ \ {w}, !.idle = @ + 1]
    /\ UNCHANGED <<mvars, evars, parked, call>>

\* the rest of handle_request and of the closure: a response or a message
\* without exactly one question panics, nothing is sent and the pool
\* replaces the thread; otherwise the message is serialized and sent
WorkerHandle ==
    /\ srv.on
    /\ \E w \in srv.running :
         /\ w.pc = "handle"
         /\ srv' = [srv EXCEPT
                      !.running = @ \ {w},
                      !.idle = @ + 1,
                      !.sent = IF rejects_parsed(w.message) THEN @
                               ELSE Append(@, [id |-> w.id, tcp |-> w.tcp,
                                               out |-> serialize(
                                                   response_message(w.message),
                                                   w.tcp)])]
    /\ UNCHANGED <<mvars, evars, parked, call>>

NextServe ==
    \/ UdpReceive
    \/ TcpConnect
    \/ TcpAccept
    \/ TcpRead
    \/ WorkerTake
    \/ WorkerParse
    \/ WorkerHandle

SpecServe == InitServe /\ [][NextServe]_vars

\* ------------------------------------------------------------------------
\* Terminal specification: one matcher whose labels may stand in any order,
\* as parse_zone_matcher accepts them (any label at any position)
\* ------------------------------------------------------------------------
MaxTerminalLen == 3

TerminalLabels == LiteralLabels \cup {Wildcard, SubWildcard, AllWildcard}
TerminalPool == SeqsUpTo(TerminalLabels, MaxTerminalLen) \ {<<>>}

InitTerminal ==
    /\ mM \in {<<m>> : m \in TerminalPool}
    /\ mQ \in QnamePool
    /\ mres = "none"
    /\ mpc = "call"
    /\ EngineIdle
    /\ OthersIdle

NextTerminal == CallDoesMatch

SpecTerminal == InitTerminal /\ [][NextTerminal]_vars

\* ------------------------------------------------------------------------
\* Extended specification: the engine under the configurations of the
\* pool and under configurations that hold
\*   - a zone whose matcher has an eager Regex label (zone key `/a\.b/.co`),
\*     which parse_regex accepts as Regex(true, ..);
\*   - a zone without address records whose recursive name server is given
\*     by a host name that the zone itself matches.
\* ------------------------------------------------------------------------
zEager == Zone(<<<<Regex(TRUE, {}), Basic(co)>>>>,
               [NoRecords EXCEPT
                  !.a = <<[ttl |-> 100, ip4addr |-> <<12, 12, 12, 12>>]>>])

EagerConfigs ==
    {[zones |-> <<zEager>>],
     [zones |-> <<zEager, zA>>],
     [zones |-> <<zA, zEager>>],
     [zones |-> <<zCnameAbs, zEager, zA>>]}

\* zone `ex.co` with RNS `ex.co:53`
zRnsSelf == Zone(<<<<Basic(ex), Basic(co)>>>>,
                 [NoRecords EXCEPT
                    !.rns = <<RnsHostPort(join(exco), 53, FALSE)>>])

\* zone `**.ex.co` with RNS `ns.ex.co:53`
zRnsInside == Zone(<<<<SubWildcard, Basic(ex), Basic(co)>>>>,
                   [NoRecords EXCEPT
                      !.rns = <<RnsHostPort(join(nsexco), 53, FALSE)>>])

RnsSelfConfigs ==
    {[zones |-> <<zRnsSelf>>],
     [zones |-> <<zRnsInside>>],
     [zones |-> <<zNsHost, zRnsInside>>]}

InitExtended ==
    /\ MatchIdle
    /\ config \in ConfigPool \cup EagerConfigs \cup RnsSelfConfigs
    /\ stack = <<>>
    /\ status = "idle"
    /\ request = NoMessage
    /\ response = NoMessage
    /\ cache = EmptyCache
    /\ lock = "free"
    /\ now = 0
    /\ upq = <<>>
    /\ runs = <<>>
    /\ nreq = 0
    /\ OthersIdle

SpecExtended == InitExtended /\ [][Next]_vars

\* ------------------------------------------------------------------------
\* Reference semantics of one matcher (for C2)
\* ------------------------------------------------------------------------
LowerChar(c) == IF c \in 65..90 THEN c + 32 ELSE c
LowerLabel(l) == [i \in DOMAIN l |-> LowerChar(l[i])]

LabelTakes(l, s) ==
    \/ l.kind = "Wildcard"
    \/ l.kind = "Basic" /\ l.s = LowerLabel(s)

\* position i of the matcher is aligned with the qname from the right
AlignedRight(m, q) ==
    \A i \in 2..Len(m) : LabelTakes(m[i], q[Len(q) - Len(m) + i])

MatcherMatches(m, q) ==
    IF m = <<>> THEN q = <<>>
    ELSE CASE m[1].kind = "SubWildcard" -> Len(q) >= Len(m) /\ AlignedRight(m, q)
           [] m[1].kind = "AllWildcard" -> Len(q) >= Len(m) - 1 /\ AlignedRight(m, q)
           [] OTHER -> /\ Len(q) = Len(m)
                       /\ LabelTakes(m[1], q[1])
                       /\ AlignedRight(m, q)

\* C2: does_match returns true iff at least one matcher of the list matches
\* the qname walked right to left: literals equal the lowercased label at
\* their position, a Wildcard takes one label, a leftmost SubWildcard one or
\* more, a leftmost AllWildcard zero or more, and no label is left over.
C2_DoesMatchIffSomeMatcher ==
    mpc = "done" =>
        (mres = "true") = (\E i \in 1..Len(mM) : MatcherMatches(mM[i], mQ))

C2_Witness ==
    /\ mpc = "done"
    /\ mres = "true"
    /\ Len(mM) = 2
    /\ ~MatcherMatches(mM[1], mQ)
    /\ mM[2] # <<>> /\ mM[2][1].kind = "SubWildcard"
    /\ Len(mQ) > Len(mM[2])
    /\ \E i \in 1..Len(mQ) : mQ[i] = Co

\* two characters equal up to letter case
SameCharModuloCase(a, b) ==
    \/ a = b
    \/ a \in 65..90 /\ b = a + 32
    \/ b \in 65..90 /\ a = b + 32

SameModuloCase(q1, q2) ==
    /\ Len(q1) = Len(q2)
    /\ \A i \in 1..Len(q1) :
         /\ Len(q1[i]) = Len(q2[i])
         /\ \A j \in 1..Len(q1[i]) : SameCharModuloCase(q1[i][j], q2[i][j])

\* every spelling of a label of the pool, letter case varied
CaseSpellings(l) == {s \in {co, Co, cO, ex, Ex, ww} : SameModuloCase(<<l>>, <<s>>)}

RECURSIVE CaseVariants(_)
CaseVariants(q) ==
    IF q = <<>> THEN {<<>>}
    ELSE {<<h>> \o t : h \in CaseSpellings(Head(q)), t \in CaseVariants(Tail(q))}

\* C3: matching is case-insensitive in the query name: two qnames that
\* differ only in letter case get the same result from does_match.
C3_CaseInsensitive ==
    mpc = "done" =>
        \A q2 \in CaseVariants(mQ) : does_match_r(mM, q2) = mres

C3_Witness ==
    /\ mpc = "done"
    /\ mres = "true"
    /\ \E i \in 1..Len(mQ) : mQ[i] = Co
    /\ \E i \in 1..Len(mM) : \E j \in 1..Len(mM[i]) : mM[i][j] = Basic(co)
    /\ \E q2 \in CaseVariants(mQ) : q2 # mQ

\* ------------------------------------------------------------------------
\* Observations on the engine: the frames of handle_dns and what the
\* configuration says about a question
\* ------------------------------------------------------------------------
\* the frames of handle_dns that have reached `return (answer, ...)`
Returning ==
    {i \in 1..Len(stack) : stack[i].fn = "handle_dns" /\ stack[i].pc = "return"}

\* the zones the qname of a question matches, by position
MatchingZones(question) ==
    {i \in 1..Len(config.zones) :
        does_match(config.zones[i].matchers, question.qname)}

FirstMatch(question) ==
    CHOOSE i \in MatchingZones(question) :
        \A j \in MatchingZones(question) : i <= j

NoXname(zone) == zone.records.cname = <<>> /\ zone.records.aname = <<>>

\* one record per A (AAAA) record of the zone, as C1 describes them
AddressRecords(question, zone) ==
    IF question.qtype = record_type_A
    THEN [i \in 1..Len(zone.records.a) |->
            [rname |-> question.qname, rtype |-> record_type_A,
             rclass |-> question.qclass, ttl |-> Wide(zone.records.a[i].ttl),
             rdata |-> zone.records.a[i].ip4addr]]
    ELSE [i \in 1..Len(zone.records.aaaa) |->
            [rname |-> question.qname, rtype |-> record_type_AAAA,
             rclass |-> question.qclass, ttl |-> Wide(zone.records.aaaa[i].ttl),
             rdata |-> zone.records.aaaa[i].ip6addr]]

IsAddressQuestion(question) ==
    question.qtype \in {record_type_A, record_type_AAAA}

ReturnsAddressRecords(f, zone) ==
    /\ f.answer = AddressRecords(f.question, zone)
    /\ f.authority = <<>>
    /\ f.additional = <<>>

\* C1 as stated: for a question of qtype A or AAAA and every zone without
\* CNAME and ANAME records that its qname matches, handle_dns returns
\* exactly the address records of that zone and nothing else.
C1_AnyMatchingZone ==
    \A i \in Returning :
        LET f == stack[i] IN
        IsAddressQuestion(f.question) =>
            \A z \in MatchingZones(f.question) :
                NoXname(config.zones[z]) => ReturnsAddressRecords(f, config.zones[z])

\* C1, amended: when the first zone the qname matches has no CNAME and no
\* ANAME records and at least one A (AAAA) record, handle_dns returns
\* exactly one record per A (AAAA) record of that zone, in configuration
\* order, named by the qname as it was asked, with the qtype, the qclass,
\* the TTL in seconds and the address octets; authority and additional
\* are empty.
C1_FirstMatchingZone ==
    \A i \in Returning :
        LET f == stack[i] IN
        (/\ IsAddressQuestion(f.question)
         /\ MatchingZones(f.question) # {}
         /\ NoXname(config.zones[FirstMatch(f.question)])
         /\ AddressRecords(f.question, config.zones[FirstMatch(f.question)]) # <<>>)
            => ReturnsAddressRecords(f, config.zones[FirstMatch(f.question)])

\* two A records returned for a qname asked in mixed case
C1_Witness ==
    \E i \in Returning :
        LET f == stack[i] IN
        /\ f.question = Question(<<Ex, cO>>, record_type_A, 1)
        /\ MatchingZones(f.question) # {}
        /\ NoXname(config.zones[FirstMatch(f.question)])
        /\ Len(f.answer) = 2
        /\ f.answer[1].rname = <<Ex, cO>>

\* ------------------------------------------------------------------------
\* What the configuration alone says about the answer to a question
\* ------------------------------------------------------------------------
Known(answer) == [known |-> TRUE, answer |-> answer]
Unknown == [known |-> FALSE, answer |-> <<>>]

\* the question a CNAME leads to
TargetQuestion(question, cname) ==
    Question(split(rewrite_xname(cname.name, join(question.qname))),
             question.qtype, 1)

\* the CNAME record as C4 describes it
CnameRecord(question, cname) ==
    [rname |-> question.qname, rtype |-> record_type_CNAME,
     rclass |-> question.qclass, ttl |-> Wide(cname.ttl),
     rdata |-> serialize_name(TargetQuestion(question, cname).qname)]

\* InternalFrom: the answer of the zones from position i on to an address
\* question, where no upstream server has a say.  CnameFollowed: each CNAME
\* record followed by the internal answer of its target; an empty internal
\* answer is followed by nothing when resolver is FALSE, and leaves the
\* answer to the resolver (Unknown) when it is TRUE.
RECURSIVE InternalFrom(_, _, _, _), CnameFollowed(_, _, _, _)
InternalFrom(question, i, fuel, resolver) ==
    IF i > Len(config.zones) THEN Known(<<>>)
    ELSE LET zone == config.zones[i] IN
         IF ~does_match(zone.matchers, question.qname)
         THEN InternalFrom(question, i + 1, fuel, resolver)
         ELSE IF zone.records.cname # <<>>
         THEN IF fuel = 0 THEN Unknown
              ELSE CnameFollowed(question, zone.records.cname, fuel - 1, resolver)
         ELSE IF ~IsAddressQuestion(question) \/ zone.records.aname # <<>>
         THEN Unknown
         ELSE IF AddressRecords(question, zone) # <<>>
         THEN Known(AddressRecords(question, zone))
         ELSE IF zone.records.rns # <<>> THEN Unknown
         ELSE InternalFrom(question, i + 1, fuel, resolver)

CnameFollowed(question, cnames, fuel, resolver) ==
    IF cnames = <<>> THEN Known(<<>>)
    ELSE LET nested == InternalFrom(TargetQuestion(question, Head(cnames)), 1,
                                    fuel, resolver)
             rest == CnameFollowed(question, Tail(cnames), fuel, resolver)
         IN IF nested.known /\ rest.known /\ (resolver => nested.answer # <<>>)
            THEN Known(<<CnameRecord(question, Head(cnames))>>
                         \o nested.answer \o rest.answer)
            ELSE Unknown

\* C4 as stated: for every zone with CNAME records that the qname matches,
\* the answer is, for each CNAME, the CNAME record followed by the internal
\* answer of its target, and authority and additional are empty.
C4_AnyZoneInternalOnly ==
    \A i \in Returning :
        LET f == stack[i] IN
        \A z \in MatchingZones(f.question) :
            LET cnames == config.zones[z].records.cname
                claimed == CnameFollowed(f.question, cnames, MaxDepth, FALSE)
            IN (cnames # <<>> /\ claimed.known) =>
                   /\ f.answer = claimed.answer
                   /\ f.authority = <<>>
                   /\ f.additional = <<>>

\* C4, amended: when the first zone the qname matches has CNAME records,
\* the answer begins with the CNAME record (rname the queried name, rdata
\* the wire form of the rewritten target) and holds, for each CNAME, its
\* record followed by the internal answer of its target when that is not
\* empty; after an empty internal answer come only records the resolver
\* gave for the target; a chain that ends at A records lists the CNAME
\* records in chain order and then the A records; authority and additional
\* are empty.
C4_FirstZoneWithFallback ==
    \A i \in Returning :
        LET f == stack[i] IN
        (MatchingZones(f.question) # {}
            /\ config.zones[FirstMatch(f.question)].records.cname # <<>>) =>
        LET cnames == config.zones[FirstMatch(f.question)].records.cname
            expected == CnameFollowed(f.question, cnames, MaxDepth, TRUE)
            target == TargetQuestion(f.question, cnames[1])
        IN /\ f.authority = <<>>
           /\ f.additional = <<>>
           /\ f.answer # <<>>
           /\ f.answer[1] = CnameRecord(f.question, cnames[1])
           /\ expected.known => f.answer = expected.answer
           /\ (Len(cnames) = 1
                 /\ InternalFrom(target, 1, MaxDepth, TRUE) = Known(<<>>)) =>
                  \A k \in 2..Len(f.answer) :
                      /\ f.answer[k].rname = target.qname
                      /\ f.answer[k].rtype = target.qtype

\* the chain w2.ex.co -> ww.ex.co -> ex.co answered with two CNAME records
\* and the two A records
C4_Witness ==
    \E i \in Returning :
        LET f == stack[i] IN
        /\ f.question = Question(w2exco, record_type_A, 1)
        /\ Len(f.answer) = 4
        /\ f.answer[1].rtype = record_type_CNAME
        /\ f.answer[1].rname = w2exco
        /\ f.answer[2].rtype = record_type_CNAME
        /\ f.answer[2].rname = wwexco
        /\ f.answer[3].rtype = record_type_A
        /\ f.answer[4].rdata = <<11, 11, 11, 11>>

\* ------------------------------------------------------------------------
\* NS questions
\* ------------------------------------------------------------------------
\* one authority record per NS record of the zone, as C5 describes them
NsRecords(question, zone) ==
    [i \in 1..Len(zone.records.ns) |->
        [rname |-> question.qname, rtype |-> record_type_NS,
         rclass |-> question.qclass, ttl |-> Wide(zone.records.ns[i].ttl),
         rdata |-> serialize_name(split(zone.records.ns[i].name))]]

\* the internally resolved A and then AAAA records of each NS name
RECURSIVE Glue(_)
Glue(nss) ==
    IF nss = <<>> THEN Known(<<>>)
    ELSE LET name == split(Head(nss).name)
             a == InternalFrom(Question(name, record_type_A, 1), 1, MaxDepth, TRUE)
             aaaa == InternalFrom(Question(name, record_type_AAAA, 1), 1,
                                  MaxDepth, TRUE)
             rest == Glue(Tail(nss))
         IN IF a.known /\ aaaa.known /\ rest.known
            THEN Known(a.answer \o aaaa.answer \o rest.answer)
            ELSE Unknown

ReturnsDelegation(f, zone) ==
    /\ f.answer = <<>>
    /\ f.authority = NsRecords(f.question, zone)
    /\ Glue(zone.records.ns).known => f.additional = Glue(zone.records.ns).answer

\* C5 as stated: for a question of qtype NS and every zone with NS records
\* that its qname matches, the answer is empty, the authority holds one
\* record per NS record of the zone and the additional the internally
\* resolved A and AAAA records of each NS name.
C5_AnyZoneWithNs ==
    \A i \in Returning :
        LET f == stack[i] IN
        f.question.qtype = record_type_NS =>
            \A z \in MatchingZones(f.question) :
                config.zones[z].records.ns # <<>> =>
                    ReturnsDelegation(f, config.zones[z])

\* C5, amended: when the first zone the qname of an NS question matches
\* has NS records and no CNAME records, the answer is empty, the authority
\* holds one record per NS record in configuration order (rdata the wire
\* form of the NS name) and the additional the internally resolved A and
\* then AAAA records of each NS name, none when no zone resolves the name.
C5_FirstZoneNsNoCname ==
    \A i \in Returning :
        LET f == stack[i] IN
        (/\ f.question.qtype = record_type_NS
         /\ MatchingZones(f.question) # {}
         /\ config.zones[FirstMatch(f.question)].records.ns # <<>>
         /\ config.zones[FirstMatch(f.question)].records.cname = <<>>)
            => ReturnsDelegation(f, config.zones[FirstMatch(f.question)])

\* the delegation of ex.co returned with the A and the AAAA record of
\* ns.ex.co as glue
C5_Witness ==
    \E i \in Returning :
        LET f == stack[i] IN
        /\ f.question.qtype = record_type_NS
        /\ MatchingZones(f.question) # {}
        /\ config.zones[FirstMatch(f.question)].records.ns # <<>>
        /\ config.zones[FirstMatch(f.question)].records.cname = <<>>
        /\ Len(f.authority) = 1
        /\ Len(f.additional) = 2
        /\ f.additional[1].rtype = record_type_A
        /\ f.additional[2].rtype = record_type_AAAA
        /\ f.additional[1].rname = nsexco

\* ------------------------------------------------------------------------
\* The zone scan and the RNS loop
\* ------------------------------------------------------------------------
HandleDnsFrames == {i \in 1..Len(stack) : stack[i].fn = "handle_dns"}

Produced(f) == f.answer # <<>> \/ f.authority # <<>>

\* C6: handle_dns scans the zones in order and stops at the first matching
\* zone that produced an answer or authority record: a call that turns to
\* a zone holds no record yet, a call that returns before the last zone
\* returns the records of the matching zone it stopped at, and a call that
\* returns nothing has gone through all the zones.
C6_StopsAtFirstProducingZone ==
    \A i \in HandleDnsFrames :
        LET f == stack[i] IN
        /\ f.zi \in 1..(Len(config.zones) + 1)
        /\ f.pc = "zone" =>
              f.answer = <<>> /\ f.authority = <<>> /\ f.additional = <<>>
        /\ (f.pc = "return" /\ f.zi <= Len(config.zones)) =>
              Produced(f) /\ f.zi \in MatchingZones(f.question)
        /\ (f.pc = "return" /\ ~Produced(f)) => f.zi = Len(config.zones) + 1

\* the scan passed a matching zone that produced nothing and stopped at
\* the next one, and: the scan stopped before a later zone that matches
C6_Witness ==
    \E i \in Returning :
        LET f == stack[i] IN
        /\ Produced(f)
        /\ \/ f.zi = 2 /\ 1 \in MatchingZones(f.question)
           \/ f.zi = 1 /\ 2 \in MatchingZones(f.question)

\* C7 as stated: consultation of the RNS entries of a zone stops at the
\* first entry that returned a record, so no entry is consulted by a call
\* that already holds an answer or authority record.
C7_StopsAtFirstRnsWithRecords ==
    \A i \in HandleDnsFrames :
        LET f == stack[i] IN
        f.pc \in {"rns_sa_ret", "rns_hp", "rns_hp_dns_ret", "rns_hp_rl_ret",
                  "rns_hp_q_ret"} => ~Produced(f)

\* ------------------------------------------------------------------------
\* handle_request
\* ------------------------------------------------------------------------
\* C8: handle_request runs the engine again, with the same qname and qtype
\* NS, exactly when the authority of the first run is empty and the qtype
\* is not NS; the response has the answer of the first run alone, and the
\* authority and additional of the first run followed by those of the
\* second.
C8_NsRerunMergesAuthorityAndAdditional ==
    response.qr =>
        LET question == request.question[1]
            first == runs[1].result
            rerun == first.authority = <<>> /\ question.qtype # record_type_NS
        IN /\ Len(runs) = (IF rerun THEN 2 ELSE 1)
           /\ runs[1].question = question
           /\ response.answer = first.answer
           /\ IF rerun
              THEN /\ runs[2].question.qname = question.qname
                   /\ runs[2].question.qtype = record_type_NS
                   /\ runs[2].question.qclass = question.qclass
                   /\ response.authority = runs[2].result.authority
                   /\ response.additional =
                          first.additional \o runs[2].result.additional
              ELSE /\ response.authority = first.authority
                   /\ response.additional = first.additional

\* an A question answered by the first run, with the authority and the
\* glue of the second run merged into the response
C8_Witness ==
    /\ response.qr
    /\ request.question[1].qtype = record_type_A
    /\ Len(runs) = 2
    /\ runs[1].result.answer # <<>>
    /\ runs[2].result.authority # <<>>
    /\ runs[2].result.additional # <<>>
    /\ response.answer = runs[1].result.answer
    /\ response.authority = runs[2].result.authority

\* ------------------------------------------------------------------------
\* The cache
\* ------------------------------------------------------------------------
LookupFrames == {i \in 1..Len(stack) : stack[i].fn = "resolver_lookup"}

\* the records of the entry stored for a question, chained
StoredChain(question) ==
    cache[question].response.answer \o cache[question].response.authority
        \o cache[question].response.additional

\* C9 as stated: the TTL returned for a record of a valid entry is the
\* stored TTL minus the whole seconds elapsed since insertion, which never
\* goes below zero: no returned TTL exceeds the stored one, and the
\* subtraction never panics under the mutex.
C9_TtlNeverBelowZero ==
    /\ lock # "poisoned"
    /\ \A i \in LookupFrames :
          LET f == stack[i] IN
          f.pc = "subtract" =>
              \A k \in 1..(f.ci - 1) :
                  ~WideLess(StoredChain(f.question)[k].ttl, Chain(f)[k].ttl)

\* C10: an entry whose expiration is not after the time read by the lookup
\* is never returned: a response is cloned from the cache only when its
\* expiration is after that time, and the lookup that finds an expired
\* entry removes it and goes on to connect to the upstream server.
C10_ExpiredEntryRemovedNotReturned ==
    /\ [](\A i \in LookupFrames :
            stack[i].pc = "subtract" =>
                /\ stack[i].question \in DOMAIN cache
                /\ WideLess(Wide(stack[i].t0), cache[stack[i].question].expiration))
    /\ [][(/\ At("resolver_lookup", "lookup")
           /\ lock # "poisoned"
           /\ Top.question \in DOMAIN cache
           /\ ~WideLess(Wide(now), cache[Top.question].expiration)
           /\ stack' # stack)
          => (/\ Top.question \notin DOMAIN cache'
              /\ Len(stack') = Len(stack)
              /\ stack'[Len(stack')].pc = "connect"
              /\ \A q \in DOMAIN cache \ {Top.question} :
                    q \in DOMAIN cache' /\ cache'[q] = cache[q])]_vars

\* a question answered and cached before is being asked upstream again,
\* its expired entry gone from the cache while another entry stays
C10_Witness ==
    /\ At("resolver_lookup", "connect")
    /\ Top.question \notin DOMAIN cache
    /\ DOMAIN cache # {}
    /\ \E k \in 1..Len(runs) :
          /\ runs[k].question = Top.question
          /\ runs[k].result.tag = "Ok"
          /\ runs[k].result.answer # <<>>
          /\ runs[k].result.answer[1].ttl = Wide(2)

\* ------------------------------------------------------------------------
\* C11: the cache under concurrent workers
\* ------------------------------------------------------------------------
Threads == <<Thread(stack, status)>> \o parked

\* the thread is inside one of the two blocks that hold the guard of CACHE
InCritical(t) ==
    /\ t.stack # <<>>
    /\ t.stack[Len(t.stack)].fn = "resolver_lookup"
    /\ t.stack[Len(t.stack)].pc \in {"subtract", "insert2"}

\* the thread is connecting to, writing to or reading from the upstream
OnUpstream(t) ==
    /\ t.stack # <<>>
    /\ t.stack[Len(t.stack)].fn = "resolver_lookup"
    /\ t.stack[Len(t.stack)].pc \in {"connect", "exchange"}

Holders == {i \in DOMAIN Threads : InCritical(Threads[i])}

\* the sections of the Ok replies the upstream server gives to the question
OkSections(question, server) ==
    {[answer |-> m.answer, authority |-> m.authority, additional |-> m.additional] :
       m \in {r \in UpstreamReplies(question, server) : rcode_response(r.rcode) = "Ok"}}

\* C11: under any interleaving of the workers the mutex is held by exactly
\* the one thread inside a cache block (so never by a thread that is on the
\* upstream connection), the cache changes only in a step of a thread that
\* has the mutex while no other thread is inside a cache block, and every
\* entry of the cache (one per Question, the cache being a map) is the
\* reply of a completed upstream query for its question.
C11_CacheOnlyUnderMutex ==
    /\ [](/\ Cardinality(Holders) <= 1
          /\ (lock = "held") <=> (Holders # {})
          /\ \A i \in DOMAIN Threads :
               OnUpstream(Threads[i]) => i \notin Holders
          /\ \A q \in DOMAIN cache :
               \E i \in DOMAIN upq :
                 /\ upq[i].question = q
                 /\ rcode_response(upq[i].rcode) = "Ok"
                 /\ cache[q].response \in OkSections(q, upq[i].server))
    /\ [][cache' # cache =>
            /\ \/ At("resolver_lookup", "lookup") /\ lock # "held"
               \/ At("resolver_lookup", "insert2") /\ lock = "held"
            /\ \A i \in DOMAIN parked : ~InCritical(parked[i])]_vars

\* one worker holds the mutex with an entry in the cache while another
\* is on the upstream connection
C11_Witness ==
    /\ lock = "held"
    /\ cache # EmptyCache
    /\ \E i, j \in DOMAIN Threads :
         i # j /\ InCritical(Threads[i]) /\ OnUpstream(Threads[j])

\* ------------------------------------------------------------------------
\* C12, C13: truncation
\* ------------------------------------------------------------------------
Serialized == call.op = "serialize" /\ call.st = "done"

read_u16_at(bytes, pos) == bytes[pos + 1] * U8 + bytes[pos + 2]

\* the entries serialize has to write, in order, each in its wire form
EntriesOf(message) ==
    [i \in DOMAIN message.question |-> write_question(message.question[i])]
      \o [i \in DOMAIN message.answer |-> write_resource(message.answer[i])]
      \o [i \in DOMAIN message.authority |-> write_resource(message.authority[i])]
      \o [i \in DOMAIN message.additional |-> write_resource(message.additional[i])]
      \o (IF message.edns.some THEN <<write_resource(opt_resource)>> ELSE <<>>)

\* the lengths of the four sections to write
SectionLens(message) ==
    <<Len(message.question), Len(message.answer), Len(message.authority),
      Len(message.additional) + Bit(message.edns.some)>>

RECURSIVE Flatten(_)
Flatten(seqs) == IF seqs = <<>> THEN <<>> ELSE Head(seqs) \o Flatten(Tail(seqs))

RECURSIVE SumLen(_)
SumLen(seqs) == IF seqs = <<>> THEN 0 ELSE Len(Head(seqs)) + SumLen(Tail(seqs))

Min(a, b) == IF a < b THEN a ELSE b
Max(a, b) == IF a > b THEN a ELSE b

\* the first k entries, counted per section
PrefixCounts(lens, k) ==
    <<Min(k, lens[1]),
      Min(Max(k - lens[1], 0), lens[2]),
      Min(Max(k - lens[1] - lens[2], 0), lens[3]),
      Min(Max(k - lens[1] - lens[2] - lens[3], 0), lens[4])>>

\* C12: what serialize writes after the 12 header bytes is the first k
\* entries of question, answer, authority, additional for the k at which
\* the running total, from 12, would first exceed the available size (all
\* of them when it never does); the four counts of the header are those of
\* that prefix; the TC bit is set exactly when an entry was left out.
C12_TruncatesAtFirstOverflow ==
    Serialized =>
      LET entries == EntriesOf(call.message)
          avail == available_size(call.message, call.tcp)
          out == call.out
          k == read_u16_at(out, 4) + read_u16_at(out, 6) + read_u16_at(out, 8)
                 + read_u16_at(out, 10)
          tc == (out[3] \div 2) % 2 = 1
      IN /\ k <= Len(entries)
         /\ <<read_u16_at(out, 4), read_u16_at(out, 6), read_u16_at(out, 8),
              read_u16_at(out, 10)>> = PrefixCounts(SectionLens(call.message), k)
         /\ SubSeq(out, 13, Len(out)) = Flatten(SubSeq(entries, 1, k))
         /\ k > 0 => 12 + SumLen(SubSeq(entries, 1, k)) <= avail
         /\ k < Len(entries) => 12 + SumLen(SubSeq(entries, 1, k + 1)) > avail
         /\ tc <=> k < Len(entries)

\* a UDP response that ends in the middle of the answer section, its last
\* entry filling the available size exactly
C12_Witness ==
    /\ Serialized
    /\ ~call.tcp
    /\ Len(call.message.answer) = 2
    /\ read_u16_at(call.out, 6) = 1
    /\ (call.out[3] \div 2) % 2 = 1
    /\ Len(call.out) = available_size(call.message, call.tcp)

\* the available size of a UDP response as the request negotiated it
Negotiated(message) ==
    IF message.edns.some THEN message.edns.udp_payload_size ELSE 512

\* C13 as claimed: a UDP response is never longer than the available size,
\* whatever udp_payload_size the request carried
C13_NeverExceedsAvailable ==
    (Serialized /\ ~call.tcp) => Len(call.out) <= Negotiated(call.message)

\* C13 amended: a UDP response is never longer than the available size or,
\* when that is below the 12 bytes of a header, than the header, which is
\* written whatever the available size
C13_NeverExceedsAvailableOrHeader ==
    (Serialized /\ ~call.tcp) =>
      /\ Len(call.out) <= Max(Negotiated(call.message), 12)
      /\ Negotiated(call.message) < 12 => Len(call.out) = 12

\* a UDP response cut down to a udp_payload_size between the header and
\* the whole message
C13_Witness ==
    /\ Serialized
    /\ ~call.tcp
    /\ call.message.edns.some
    /\ call.message.edns.udp_payload_size \in 13..MaxPayload
    /\ Len(call.out) > 12
    /\ (call.out[3] \div 2) % 2 = 1

\* ------------------------------------------------------------------------
\* C14: serialize(parse(bytes)) over TCP
\* ------------------------------------------------------------------------
RoundTripDone == call.op = "roundtrip" /\ call.st = "done"

Counts(bytes) ==
    <<read_u16(bytes, 4), read_u16(bytes, 6), read_u16(bytes, 8),
      read_u16(bytes, 10)>>

\* the flags of a header but tc
FlagsButTc(header) ==
    <<header.qr, header.opcode, header.aa, header.rd, header.ra, header.z,
      header.rcode>>

C15_NameDecodingTerminates ==
    (call.op = "parse_name" /\ call.n.st = "run") =>
      call.steps <= Len(call.n.buf)

\* ------------------------------------------------------------------------
\* C16: rewrite_xname
\* ------------------------------------------------------------------------
\* C16: the result of rewrite_xname is the destination without its trailing
\* dot when it ends with one, and otherwise the destination, a dot, and the
\* qname with its leftmost label dropped, a single-label qname included
C16_RelativeToParentOfQname ==
    (call.op = "rewrite_xname" /\ call.st = "done") =>
      call.out =
        IF call.xname_destination[Len(call.xname_destination)] = DOT
        THEN SubSeq(call.xname_destination, 1, Len(call.xname_destination) - 1)
        ELSE call.xname_destination \o <<DOT>> \o join(Tail(split(call.qname)))

\* ------------------------------------------------------------------------
\* C17: a response sent as a request
\* ------------------------------------------------------------------------
\* C17: when the request has qr set, handle_request panics before it
\* returns a message, so the closure of the worker sends nothing on the
\* socket or the stream; handle_dns is not called, no upstream server is
\* asked and the cache stays as it was before the request arrived
C17_ResponseAsRequestDropped ==
    /\ [](request.qr =>
            /\ response = NoMessage
            /\ status = "panicked"
            /\ stack = <<>>
            /\ runs = <<>>
            /\ upq = <<>>)
    /\ [][request'.qr => (cache' = cache /\ lock' = lock)]_vars

\* the request with qr set has been taken by a worker
C17_Witness ==
    /\ request.qr
    /\ request.question # <<>>
    /\ nreq = 1
    /\ status = "panicked"

\* ------------------------------------------------------------------------
\* C18, C19: the listeners and the pool
\* ------------------------------------------------------------------------
\* the thread is in a parse that does not return
Stuck(w) == w.pc = "parse" /\ parse(w.buf).st = "loop"

\* the worker threads that are free or will be free again
Usable == srv.idle + Cardinality({w \in srv.running : ~Stuck(w)})

\* C18: whatever requests have failed in the workers (bytes that do not
\* parse, qr set, a question count other than 1), the UDP listener is
\* running and the pool has its configured number of usable workers, so
\* that a later well-formed request finds a worker
C18_FailureConfinedToWorker ==
    srv.on => (srv.udp = "recv_from" /\ Usable = PoolThreads)

\* C19: the TCP listener only accepts and hands off: it is never waiting
\* for the bytes of a client it has accepted and never ended by a client
C19_ListenersOnlyAcceptAndHandOff ==
    srv.on => srv.tcp = "accept"

\* ------------------------------------------------------------------------
\* C20: the rcode of the upstream
\* ------------------------------------------------------------------------
\* C20: when the upstream queries made for a request were all answered
\* with one non-zero rcode, the response returned for the client carries
\* that rcode in its header
C20_UpstreamRcodePropagated ==
    (response # NoMessage /\ upq # <<>>) =>
      \A r \in 1..5 :
        (\A i \in DOMAIN upq : upq[i].rcode = r) => response.rcode = r

\* ------------------------------------------------------------------------
\* C21: SubWildcard and AllWildcard at any position of a matcher
\* ------------------------------------------------------------------------
\* the labels of m to the right of position i
RightOf(m, i) == SubSeq(m, i + 1, Len(m))

\* the right-to-left walk of m over q has matched the labels to the right
\* of position i, and the wildcard at position i finds what it needs
TerminalMatched(m, q, i) ==
    /\ m[i].kind \in {"SubWildcard", "AllWildcard"}
    /\ LET w == walk_labels(Rev(RightOf(m, i)), qname_iter(q)) IN
         /\ w.st = "end"
         /\ m[i].kind = "SubWildcard" => w.rest # <<>>

\* C21: once a SubWildcard (with at least one qname label left) or an
\* AllWildcard (with any number left) has been matched in the walk of a
\* matcher, does_match succeeds, whatever labels stand to its left
C21_WildcardsTerminal ==
    (mpc = "done" /\ Len(mM) = 1) =>
      \A i \in 1..Len(mM[1]) :
        TerminalMatched(mM[1], mQ, i) => mres = "true"

\* ------------------------------------------------------------------------
\* C22: eager Regex labels
\* ------------------------------------------------------------------------
IsEager(label) == label.kind = "Regex" /\ label.eager

\* no matcher of the zone has an eager Regex label
EagerFree(zone) ==
    \A i \in DOMAIN zone.matchers :
      \A j \in DOMAIN zone.matchers[i] : ~IsEager(zone.matchers[i][j])

\* the zone loop ends in the panic of does_match
EagerPanic == At("handle_dns", "zone") /\ status' = "panicked"

\* C22: an eager Regex label stops only the questions of its own zone: a
\* question whose qname is matched by a zone without eager labels is not
\* ended by the eager label of another zone, the server goes on to answer
\* it
C22_EagerRegexConfined ==
    [][EagerPanic =>
         ~\E i \in DOMAIN config.zones :
             /\ EagerFree(config.zones[i])
             /\ does_match(config.zones[i].matchers, Top.question.qname)]_vars

\* ------------------------------------------------------------------------
\* C23: the CNAME arm and questions of qtype CNAME
\* ------------------------------------------------------------------------
\* the frame is in the CNAME arm: at its loop head, or waiting for the
\* nested handle_dns or the resolver_lookup of a target
InCnameArm(f) ==
    f.fn = "handle_dns" /\ f.pc \in {"cname", "cname_ret", "cname_rl_ret"}

\* C23: a handle_dns call for a question of qtype CNAME never takes the
\* CNAME arm: it makes no nested handle_dns call for a CNAME target and
\* forwards no target to the resolver
C23_CnameQtypeNotFollowed ==
    \A i \in DOMAIN stack :
      stack[i].question.qtype = record_type_CNAME => ~InCnameArm(stack[i])

\* ------------------------------------------------------------------------
\* C24: the cache and the rcode of the upstream reply
\* ------------------------------------------------------------------------
\* the step puts an entry in the cache or replaces one
Inserts ==
    \E q \in DOMAIN cache' : q \notin DOMAIN cache \/ cache'[q] # cache[q]

\* the reply that resolver_lookup has read last
LastReply == upq[Len(upq)]

\* C24: resolver_lookup inserts in the cache only after an upstream reply
\* with rcode 0, and a lookup whose reply had a non-zero rcode returns a
\* failure variant
C24_InsertOnlyOnRcodeZero ==
    [][/\ Inserts => (upq # <<>> /\ LastReply.rcode = 0)
       /\ (At("resolver_lookup", "exchange") /\ upq' # upq
             /\ upq'[Len(upq')].rcode > 0)
            => (status' = "busy" /\ stack'[Len(stack')].ret.tag # "Ok"
                  /\ cache' = cache /\ Len(stack') < Len(stack))]_vars

\* ------------------------------------------------------------------------
\* C25: the expiration of a cache entry
\* ------------------------------------------------------------------------
\* cache_time plus the least ttl of the records the entry stores
LeastAllowed(entry) ==
    expiration_at(entry.cache_time,
                  least_ttl(Chain(entry.response), u32_max_value))

\* the step of the lookup that finds a valid entry and clones it
ServesCached ==
    /\ At("resolver_lookup", "lookup")
    /\ status' = "busy"
    /\ stack'[Len(stack')].pc = "subtract"

\* C25: the expiration of every cache entry that stores records is a
\* clock reading of its insertion plus the least ttl of those records, and
\* a lookup serves an entry only while less than that least ttl has passed
\* since its cache_time, from which the returned ttls are counted
C25_ExpirationIsInsertionPlusLeastTtl ==
    /\ [](\A q \in DOMAIN cache :
            Chain(cache[q].response) # <<>>
              => \E t \in cache[q].cache_time..now :
                   cache[q].expiration
                     = expiration_at(t, least_ttl(Chain(cache[q].response),
                                                  u32_max_value)))
    /\ [][(ServesCached /\ Chain(cache[Top.question].response) # <<>>)
            => WideLess(Wide(now), LeastAllowed(cache[Top.question]))]_vars

\* ------------------------------------------------------------------------
\* C26: a question that does not fit
\* ------------------------------------------------------------------------
\* serialize has run on a message whose first question, after the 12
\* bytes of the header, passes the available size
QuestionDoesNotFit ==
    /\ Serialized
    /\ call.message.question # <<>>
    /\ 12 + question_increase(call.message.question[1])
         > available_size(call.message, call.tcp)

TcBit(out) == (out[3] \div 2) % 2 = 1

\* C26 as claimed: when the question alone does not fit, the output has
\* the TC bit set, a question count that is not zero and bytes of a
\* (partial) question after the header
C26_PartialQuestionEmitted ==
    QuestionDoesNotFit =>
      /\ TcBit(call.out)
      /\ read_u16_at(call.out, 4) # 0
      /\ Len(call.out) > 12

\* C26 amended: when the question alone does not fit, the output is the
\* 12 bytes of the header with the TC bit set and the four counts at zero:
\* no question, whole or partial, is written
C26_HeaderOnlyWhenQuestionDoesNotFit ==
    QuestionDoesNotFit =>
      /\ TcBit(call.out)
      /\ Len(call.out) = 12
      /\ \A pos \in {4, 6, 8, 10} : read_u16_at(call.out, pos) = 0

\* a UDP response with an answer, cut down by a udp_payload_size that has
\* room for the header and not for the question
C26_Witness ==
    /\ QuestionDoesNotFit
    /\ ~call.tcp
    /\ call.message.edns.some
    /\ call.message.edns.udp_payload_size \in 12..22
    /\ call.message.answer # <<>>

\* ------------------------------------------------------------------------
\* C27: termination without CNAME and ANAME records
\* ------------------------------------------------------------------------
\* no zone of the configuration has a CNAME or an ANAME record
NoXnameConfig == \A i \in DOMAIN config.zones : NoXname(config.zones[i])

\* a handle_dns call is nested in a handle_dns call for the same question:
\* the inner call reaches the call site of the outer one again
Reentered ==
    \E i, j \in HandleDnsFrames :
      i < j /\ stack[i].question = stack[j].question

\* C27: under a configuration without CNAME and ANAME records the nested
\* calls of handle_dns are bounded: no call is nested in a call for the
\* same question and the stack does not overflow
C27_TerminatesWithoutXname ==
    NoXnameConfig => (~Reentered /\ status # "aborted")

\* ------------------------------------------------------------------------
\* C28: the cache is keyed by the Question alone
\* ------------------------------------------------------------------------
\* the three sections of a frame or of a returned value
Sections(f) ==
    [answer |-> f.answer, authority |-> f.authority, additional |-> f.additional]

\* the lookup block of resolver_lookup runs, with the guard of a mutex
\* that is not poisoned, on a question that has a valid entry; the server
\* of the call is not looked at
HitStep ==
    /\ At("resolver_lookup", "lookup")
    /\ stack' # stack
    /\ lock # "poisoned"
    /\ Top.question \in DOMAIN cache
    /\ entry_valid(cache[Top.question], now)

\* the insertion block of resolver_lookup runs
InsertStep == At("resolver_lookup", "insert2") /\ stack' # stack

\* C28: resolver_lookup stores a reply under its Question, whatever server
\* sent it, and a later call for that Question whose reading of the clock
\* is before the expiration clones that entry, whatever server the call
\* names, and returns without a query to any server
C28_CacheHitByQuestionAlone ==
    /\ [][InsertStep =>
            /\ Top.question \in DOMAIN cache'
            /\ cache'[Top.question].response = Sections(Top)]_vars
    /\ [][HitStep =>
            /\ status' = "busy"
            /\ stack'[Len(stack')].pc = "subtract"
            /\ Sections(stack'[Len(stack')]) = cache[Top.question].response
            /\ cache' = cache
            /\ upq' = upq]_vars
    /\ [][At("resolver_lookup", "subtract") => upq' = upq]_vars

\* a call naming 8.8.4.4 is being served the reply that 8.8.8.8 sent, and
\* no query has gone to 8.8.4.4
C28_Witness ==
    /\ At("resolver_lookup", "subtract")
    /\ Top.server = Rns2
    /\ Top.answer # <<>>
    /\ Top.answer[1].rdata = UpstreamRdata(Top.question, Rns1)
    /\ upq # <<>>
    /\ \A i \in DOMAIN upq : upq[i].server = Rns1

\* ------------------------------------------------------------------------
\* C29: an upstream reply without records
\* ------------------------------------------------------------------------
\* the entry of question q stores no record
StoresNothing(q) == q \in DOMAIN cache /\ Chain(cache[q].response) = <<>>

\* the lookup block of resolver_lookup runs, with the guard of a mutex
\* that is not poisoned, on a question whose entry stores no record
EmptyEntryLookup ==
    /\ At("resolver_lookup", "lookup")
    /\ stack' # stack
    /\ lock # "poisoned"
    /\ StoresNothing(Top.question)

\* C29: a reply accepted as Ok that has no record in any section is
\* inserted with expiration = the clock reading of the insertion plus
\* u32::max_value() seconds, and from then on every resolver_lookup of
\* that question, whatever server it names and whatever the time, is
\* served the empty entry without a query to any server
C29_EmptyReplyCachedForU32Max ==
    /\ [][(InsertStep /\ Chain(Top) = <<>>) =>
            /\ StoresNothing(Top.question)'
            /\ cache'[Top.question].expiration
                 = expiration_at(now, u32_max_value)]_vars
    /\ [](\A q \in DOMAIN cache :
            StoresNothing(q) =>
              /\ \E t \in cache[q].cache_time..now :
                   cache[q].expiration = expiration_at(t, u32_max_value)
              /\ entry_valid(cache[q], now))
    /\ [][EmptyEntryLookup =>
            /\ status' = "busy"
            /\ stack'[Len(stack')].pc = "subtract"
            /\ Chain(stack'[Len(stack')]) = <<>>
            /\ cache' = cache
            /\ upq' = upq]_vars

\* at the last instant of the clock a call naming 8.8.4.4 is served the
\* empty reply that 8.8.8.8 sent with rcode 0 at the first
C29_Witness ==
    /\ At("resolver_lookup", "subtract")
    /\ Top.server = Rns2
    /\ Chain(Top) = <<>>
    /\ now = MaxTime
    /\ cache[Top.question].cache_time = 0
    /\ upq = <<[server |-> Rns1, question |-> Top.question, rcode |-> 0]>>

\* ------------------------------------------------------------------------
\* C30: the two assertions of serialize
\* ------------------------------------------------------------------------
\* what compute_truncation returns for the message serialize was called on
Computed ==
    compute_truncation(available_size(call.message, call.tcp),
                       call.message.question, call.message.answer,
                       call.message.authority,
                       IF ~call.message.edns.some THEN call.message.additional
                       ELSE Append(call.message.additional, opt_resource))

\* the output read back entry by entry, as many entries of each section as
\* its header announces: where the reading ends
EndOfSections(buf) ==
    LET question == parse_questions(buf, 12, read_u16(buf, 4), <<>>)
        answer == read_resources(buf, question.pos, read_u16(buf, 6), <<>>)
        authority == read_resources(buf, answer.pos, read_u16(buf, 8), <<>>)
    IN IF question.st # "ok" THEN question
       ELSE IF answer.st # "ok" THEN answer
       ELSE IF authority.st # "ok" THEN authority
       ELSE read_resources(buf, authority.pos, read_u16(buf, 10), <<>>)

\* C30: the size compute_truncation returns is at most 65535 and is the
\* number of bytes serialize writes (its two assertions), and the four
\* counts of the header are the numbers of entries written: reading that
\* many entries back from the output ends exactly at its last byte
C30_AssertionsOfSerializeHold ==
    Serialized =>
      /\ Computed.size <= U16 - 1
      /\ Len(call.out) = Computed.size
      /\ Counts(call.out) = <<Len(Computed.question), Len(Computed.answer),
                              Len(Computed.authority), Len(Computed.additional)>>
      /\ EndOfSections(call.out).st = "ok"
      /\ EndOfSections(call.out).pos = Len(call.out)

\* a UDP response with EDNS cut after its two answers: the authority
\* record and the OPT record are left out, and TC is set
C30_Witness ==
    /\ Serialized
    /\ ~call.tcp
    /\ call.message.edns.some
    /\ TcBit(call.out)
    /\ Counts(call.out) = <<1, 2, 0, 0>>
    /\ call.message.authority # <<>>
    /\ Len(call.out) > 12

====
